---------------------------- MODULE Spec2Model ----------------------------
(***************************************************************************)
(* A model of SEBA, the spectral energy budget of a dry hydrostatic        *)
(* atmosphere.  Two variants of the engine are modelled side by side:      *)
(*   "aeb"  - src/AtmosphericEnergyBudget.py with src/tools.py             *)
(*   "seba" - src/src/seba.py with src/src/io_tools.py                     *)
(*                                                                         *)
(* The module holds four state machines over one set of variables:         *)
(*   SpecChunks - tools.number_chunks, the worker-count search             *)
(*   SpecPool   - a pooled transform call (array_split / Pool.map /        *)
(*                concatenate)                                             *)
(*   SpecIndex  - tools.getspecindx and EnergyBudget.cross_spectrum        *)
(*   SpecEngine - construction of an EnergyBudget, attribute access and    *)
(*                the tendency diagnostics                                 *)
(* A machine leaves the variables of the other machines at their idle      *)
(* values.                                                                 *)
(***************************************************************************)
EXTENDS Integers, Sequences, FiniteSets, TLC

VARIABLES
    nc,      \* the activation record of tools.number_chunks
    pool,    \* one pooled transform call of the "aeb" engine
    sp,      \* spectral index arrays and one cross_spectrum call
    eng,     \* an EnergyBudget object and the last call made on it
    tool     \* one call of a function of tools.py: arguments and result

vars == <<nc, pool, sp, eng, tool>>

None == "None"

(***************************************************************************)
(* Bounds of the model.                                                    *)
(***************************************************************************)
MaxSampleSize == 12     \* largest packed sample-axis length in SpecChunks
MaxPoolSamples == 4     \* largest packed sample-axis length in SpecPool
MaxTrunc == 2           \* largest triangular truncation in SpecIndex
MaxLat == 3             \* largest number of latitudes in SpecEngine
MaxLevels == 3          \* largest number of pressure levels in SpecMask
MaxDegrees == 4         \* largest number of degrees of a spectrum in SpecFlux
MaxDim == 2             \* largest length of an array axis in SpecPrepare

(***************************************************************************)
(* Idle values: what a machine that is not running holds.                  *)
(***************************************************************************)
IdleNc == [pc |-> "idle"]
IdlePool == [pc |-> "idle"]
IdleSp == [pc |-> "idle"]
IdleEng == [pc |-> "idle"]

IdleTool == [pc |-> "idle"]

(***************************************************************************)
(*                         tools.number_chunks                             *)
(***************************************************************************)

\* a % b of Python for b # 0: the result has the sign of b.
PyMod(a, b) == IF b > 0 THEN a % b ELSE 0 - ((0 - a) % (0 - b))

\* while sample_size % jobs: (the loop test of number_chunks), for jobs # 0
NcLoopTest(sample_size, jobs) == PyMod(sample_size, jobs) # 0

\* return jobs if jobs != 1 else workers
NcReturnValue(jobs, workers) == IF jobs # 1 THEN jobs ELSE workers

InitChunks ==
    /\ \E s \in 1..MaxSampleSize : \E w \in 1..s :
          nc = [pc |-> "call", sample_size |-> s, workers |-> w,
                jobs |-> None, result |-> None]
    /\ pool = IdlePool
    /\ sp = IdleSp
    /\ eng = IdleEng
    /\ tool = IdleTool

\* jobs = workers
NcEnter ==
    /\ nc.pc = "call"
    /\ nc' = [nc EXCEPT !.pc = "loop", !.jobs = nc.workers]
    /\ UNCHANGED <<pool, sp, eng, tool>>

\* The model follows the descent of jobs down to this value; below
\* -sample_size the loop test holds for every further value of jobs.
JobsFloor == 0 - (MaxSampleSize + 2)

\* one iteration of the loop body: jobs -= 1
NcStep ==
    /\ nc.pc = "loop"
    /\ nc.jobs # 0
    /\ nc.jobs > JobsFloor
    /\ NcLoopTest(nc.sample_size, nc.jobs)
    /\ nc' = [nc EXCEPT !.jobs = nc.jobs - 1]
    /\ UNCHANGED <<pool, sp, eng, tool>>

\* the loop test fails: return
NcReturn ==
    /\ nc.pc = "loop"
    /\ nc.jobs # 0
    /\ ~NcLoopTest(nc.sample_size, nc.jobs)
    /\ nc' = [nc EXCEPT !.pc = "done",
                        !.result = NcReturnValue(nc.jobs, nc.workers)]
    /\ UNCHANGED <<pool, sp, eng, tool>>

NextChunks == NcEnter \/ NcStep \/ NcReturn

SpecChunks == InitChunks /\ [][NextChunks]_vars

\* Divisors of s that do not exceed w.
DivisorsUpTo(s, w) == {d \in 1..w : s % d = 0}

SetMax(S) == CHOOSE x \in S : \A y \in S : y <= x

\* C1: for 1 <= W <= S, number_chunks(S, W) returns the largest divisor of S
\* that does not exceed W (1, sequential, when no larger divisor exists), so
\* the returned worker count always divides S.
C1_ChunksDivide ==
    nc.pc = "done" =>
        /\ nc.sample_size % nc.result = 0
        /\ nc.result = SetMax(DivisorsUpTo(nc.sample_size, nc.workers))

(***************************************************************************)
(*        Pooled transform calls of the "aeb" engine (multiprocessing)     *)
(***************************************************************************)

\* The transforms that fan out over the packed sample axis, and the backend
\* (spharm) routines each one maps over its chunks, in call order.
\* horizontal_gradient first calls _spectral_transform, then maps getgrad.
PoolOps == {"_spectral_transform", "_inverse_transform", "_compute_rotdiv",
            "sfvp", "horizontal_gradient"}

Stages(op) ==
    CASE op = "_spectral_transform" -> <<"grdtospec">>
      [] op = "_inverse_transform"  -> <<"spectogrd">>
      [] op = "_compute_rotdiv"     -> <<"getvrtdivspec">>
      [] op = "sfvp"                -> <<"getpsichi">>
      [] op = "horizontal_gradient" -> <<"grdtospec", "getgrad">>

\* A backend routine applied to one sample: the routines are external, so
\* the result is the uninterpreted term <<routine, sample>>.
Backend(fn, x) == <<fn, x>>

\* A backend routine applied to a chunk works on each sample of the chunk.
BackendChunk(fn, chunk) == [j \in 1..Len(chunk) |-> Backend(fn, chunk[j])]

SectionSize_Even(total, sections, i) == total \div sections

\* numpy.array_split: Neach_section, extras = divmod(Ntotal, Nsections);
\* the first `extras` sections hold one element more.
SectionSize(total, sections, i) ==
    (total \div sections) + (IF i <= total % sections THEN 1 ELSE 0)

\* numpy.array_split: div_points, the cumulative sum of the section sizes.
RECURSIVE DivPoint(_, _, _)
DivPoint(total, sections, i) ==
    IF i = 0 THEN 0
    ELSE DivPoint(total, sections, i - 1) + SectionSize(total, sections, i)

\* np.array_split(data, jobs, axis=-1)
ArraySplit(data, jobs) ==
    [i \in 1..jobs |->
        SubSeq(data, DivPoint(Len(data), jobs, i - 1) + 1,
                     DivPoint(Len(data), jobs, i))]

\* np.concatenate(result, axis=-1)
RECURSIVE Concatenate(_)
Concatenate(seqs) ==
    IF seqs = <<>> THEN <<>>
    ELSE Head(seqs) \o Concatenate(Tail(seqs))

PoolMapValue_Unordered(results, finished) ==
    [k \in 1..Len(results) |-> results[finished[k]]]

\* The list Pool.map / Pool.starmap returns: the result of chunk i at
\* position i, whatever the order `finished` in which the workers completed.
PoolMapValue(results, finished) == results

InitPool ==
    /\ \E s \in 1..MaxPoolSamples : \E j \in 1..s : \E op \in PoolOps :
          pool = [pc |-> "call", op |-> op, jobs |-> j,
                  input |-> [k \in 1..s |-> k],
                  data |-> [k \in 1..s |-> k],
                  stages |-> Stages(op),
                  chunks |-> <<>>, status |-> <<>>, results |-> <<>>,
                  finished |-> <<>>,
                  output |-> None, open |-> 0]
    /\ nc = IdleNc
    /\ sp = IdleSp
    /\ eng = IdleEng
    /\ tool = IdleTool

\* data_chunks = np.array_split(..., self.jobs, axis=-1)
\* pool = mp.Pool(processes=self.jobs); pool.map(...) hands out the chunks
PoolDispatch ==
    /\ pool.pc = "call"
    /\ pool' = [pool EXCEPT !.pc = "running",
                            !.chunks = ArraySplit(pool.data, pool.jobs),
                            !.status = [i \in 1..pool.jobs |-> "pending"],
                            !.results = [i \in 1..pool.jobs |-> <<>>],
                            !.finished = <<>>,
                            !.open = pool.open + 1]
    /\ UNCHANGED <<nc, sp, eng, tool>>

\* a worker returns the result of chunk i
WorkerFinish(i) ==
    /\ pool.pc = "running"
    /\ i <= pool.jobs
    /\ pool.status[i] = "pending"
    /\ pool' = [pool EXCEPT
                  !.status[i] = "ok",
                  !.results[i] = BackendChunk(Head(pool.stages), pool.chunks[i]),
                  !.finished = Append(pool.finished, i)]
    /\ UNCHANGED <<nc, sp, eng, tool>>

\* the backend routine raises in the worker that holds chunk i
WorkerFail(i) ==
    /\ pool.pc = "running"
    /\ i <= pool.jobs
    /\ pool.status[i] = "pending"
    /\ pool' = [pool EXCEPT !.status[i] = "failed",
                            !.finished = Append(pool.finished, i)]
    /\ UNCHANGED <<nc, sp, eng, tool>>

AllFinished == \A i \in 1..pool.jobs : pool.status[i] # "pending"
\* A map that drops the exception of a worker.
AnyFailed_Ignored == FALSE

AnyFailed == \E i \in 1..pool.jobs : pool.status[i] = "failed"

\* Pool.map returns once every chunk is done; then pool.close(), pool.join()
\* and np.concatenate(result, axis=-1).  A transform with a further stage
\* goes on with the concatenated array as its data.
PoolCollect ==
    /\ pool.pc = "running"
    /\ AllFinished
    /\ ~AnyFailed
    /\ LET out == Concatenate(PoolMapValue(pool.results, pool.finished))
       IN  pool' = [pool EXCEPT
                      !.open = pool.open - 1,
                      !.stages = Tail(pool.stages),
                      !.data = out,
                      !.pc = IF Tail(pool.stages) = <<>> THEN "done" ELSE "call",
                      !.output = IF Tail(pool.stages) = <<>> THEN out ELSE None]
    /\ UNCHANGED <<nc, sp, eng, tool>>

\* Pool.map re-raises the exception of a failed chunk once every chunk is
\* done; the statements after it (close, join, concatenate) are not reached.
PoolRaise ==
    /\ pool.pc = "running"
    /\ AllFinished
    /\ AnyFailed
    /\ pool' = [pool EXCEPT !.pc = "raised"]
    /\ UNCHANGED <<nc, sp, eng, tool>>

NextPool ==
    \/ PoolDispatch
    \/ \E i \in 1..MaxPoolSamples : WorkerFinish(i)
    \/ \E i \in 1..MaxPoolSamples : WorkerFail(i)
    \/ PoolCollect
    \/ PoolRaise

SpecPool == InitPool /\ [][NextPool]_vars

\* The result of a transform for one sample: its backend routines in turn.
RECURSIVE PerSample(_, _)
PerSample(stages, x) ==
    IF stages = <<>> THEN x
    ELSE PerSample(Tail(stages), Backend(Head(stages), x))

\* The same transform run with one worker: a single chunk per stage.
RECURSIVE RunWith(_, _, _)
RunWith(stages, data, jobs) ==
    IF stages = <<>> THEN data
    ELSE RunWith(Tail(stages),
                 Concatenate([i \in 1..jobs |->
                     BackendChunk(Head(stages), ArraySplit(data, jobs)[i])]),
                 jobs)

\* C2: whatever the worker count and the order in which the workers finish,
\* the sample axis is split into `jobs` contiguous chunks that cover it once,
\* and the concatenated output holds the result of sample j at position j:
\* it is the output of the same transform with jobs = 1.
C2_ParallelEquivalence ==
    /\ pool.pc = "running" =>
          /\ Len(pool.chunks) = pool.jobs
          /\ Concatenate(pool.chunks) = pool.data
    /\ pool.pc = "done" =>
          /\ Len(pool.output) = Len(pool.input)
          /\ \A j \in 1..Len(pool.input) :
                pool.output[j] = PerSample(Stages(pool.op), pool.input[j])
          /\ pool.output = RunWith(Stages(pool.op), pool.input, 1)

\* A two-stage transform finished with uneven chunks whose last worker
\* completed before the first one.
C2_Witness ==
    /\ pool.pc = "done"
    /\ pool.op = "horizontal_gradient"
    /\ pool.jobs >= 2
    /\ Len(pool.input) % pool.jobs # 0
    /\ pool.finished[1] = pool.jobs

(***************************************************************************)
(*          tools.getspecindx and EnergyBudget.cross_spectrum              *)
(*                                                                         *)
(* Spectral coefficients are complex numbers <<re, im>> with integer       *)
(* parts.  Real results are kept in units of one half, so that the         *)
(* division of the spectrum by 2.0 is exact: the real number x is the      *)
(* integer 2x.  One sample column is modelled; the code treats the         *)
(* trailing sample axes elementwise.                                       *)
(***************************************************************************)

\* np.indices((ntrunc + 1, ntrunc + 1)), flattened in C order: the entry at
\* flat position k (from 0) of index_m is its row, of index_n its column.
FlatIndexM(ntrunc, k) == k \div (ntrunc + 1)
FlatIndexN(ntrunc, k) == k % (ntrunc + 1)

SpecIndexKept_Strict(n, m) == n > m

\* np.greater(index_n, index_m - 1)
SpecIndexKept(n, m) == n > m - 1

\* np.nonzero(np.greater(index_n, index_m - 1).flatten())
SpecIndexNonzero(ntrunc) ==
    SelectSeq([i \in 1..((ntrunc + 1) * (ntrunc + 1)) |-> i - 1],
              LAMBDA k : SpecIndexKept(FlatIndexN(ntrunc, k),
                                       FlatIndexM(ntrunc, k)))

\* np.squeeze on a shape: the axes of length 1 are dropped.
Squeeze(shape) == SelectSeq(shape, LAMBDA d : d # 1)

\* getspecindx(ntrunc): np.take with the index tuple of np.nonzero gives
\* arrays of shape (1, K), which np.squeeze reduces to (K,), or to the
\* 0-dimensional shape () when K = 1.  The entries are kept flat.
Getspecindx(ntrunc) ==
    LET indices == SpecIndexNonzero(ntrunc)
    IN  [index_m |-> [i \in 1..Len(indices) |-> FlatIndexM(ntrunc, indices[i])],
         index_n |-> [i \in 1..Len(indices) |-> FlatIndexN(ntrunc, indices[i])],
         shape   |-> Squeeze(<<1, Len(indices)>>)]

\* An array argument that is not given (None).
NoArray == <<>>

\* Complex arithmetic on <<re, im>>.
Conjugate(z) == <<z[1], 0 - z[2]>>
CMul(a, b) == <<a[1] * b[1] - a[2] * b[2], a[1] * b[2] + a[2] * b[1]>>

\* (clm1 * clm2.conjugate()).real, as a real number (in halves)
CrossReal(a, b) == 2 * CMul(a, Conjugate(b))[1]

SymmetryWeight_Two(m) == 2

\* np.where(ms == 0, 1.0, 2.0)
SymmetryWeight(m) == IF m = 0 THEN 1 ELSE 2

DegreeRange_Strict(m, l, degree) == (m < degree) /\ (l = degree)

\* degree_range = (ms <= degree) & (ls == degree), for one coefficient
DegreeRange(m, l, degree) == (m <= degree) /\ (l = degree)

\* clm_sqd[degree_range].sum(axis=0): the sum over the first k coefficients
RECURSIVE DegreeSum(_, _, _, _, _)
DegreeSum(clm_sqd, ms, ls, degree, k) ==
    IF k = 0 THEN 0
    ELSE DegreeSum(clm_sqd, ms, ls, degree, k - 1)
         + (IF DegreeRange(ms[k], ls[k], degree) THEN clm_sqd[k] ELSE 0)

\* spectrum /= 2.0
DivideByTwo(x) == x \div 2

\* cross_spectrum(clm1, clm2) with the default degrees and the 'power'
\* convention; clm2 = NoArray (None) selects the power spectrum of clm1.
CrossSpectrum(ms, ls, truncation, clm1, clm2) ==
    LET raw == IF clm2 = NoArray
               THEN [k \in 1..Len(clm1) |-> CrossReal(clm1[k], clm1[k])]
               ELSE [k \in 1..Len(clm1) |-> CrossReal(clm1[k], clm2[k])]
        clm_sqd == [k \in 1..Len(clm1) |-> SymmetryWeight(ms[k]) * raw[k]]
    IN  [ln \in 1..(truncation + 1) |->
            DivideByTwo(DegreeSum(clm_sqd, ms, ls, ln - 1, Len(clm1)))]

\* The coefficient values the model draws from.
CoeffValues == {<<1, 2>>, <<0, -1>>}

\* Second arguments of cross_spectrum for a given first argument: omitted,
\* the first argument itself, its product with i, and its reversal.
SecondArguments(clm1) ==
    {NoArray, clm1,
     [k \in 1..Len(clm1) |-> CMul(<<0, 1>>, clm1[k])],
     [k \in 1..Len(clm1) |-> clm1[Len(clm1) + 1 - k]]}

InitIndex ==
    /\ \E t \in 0..MaxTrunc :
          sp = [pc |-> "new", truncation |-> t,
                zonal_wavenumber |-> <<>>, total_wavenumber |-> <<>>,
                shape |-> <<>>, ncoeffs |-> 0,
                clm1 |-> NoArray, clm2 |-> NoArray,
                spectrum |-> <<>>, spectrum_shape |-> <<>>]
    /\ nc = IdleNc
    /\ pool = IdlePool
    /\ eng = IdleEng
    /\ tool = IdleTool

\* self.zonal_wavenumber, self.total_wavenumber = getspecindx(self.truncation)
\* self.ncoeffs = self.total_wavenumber.size
SpGetspecindx ==
    /\ sp.pc = "new"
    /\ LET r == Getspecindx(sp.truncation)
       IN  sp' = [sp EXCEPT !.pc = "indexed",
                            !.zonal_wavenumber = r.index_m,
                            !.total_wavenumber = r.index_n,
                            !.shape = r.shape,
                            !.ncoeffs = Len(r.index_n)]
    /\ UNCHANGED <<nc, pool, eng, tool>>

\* spectrum = self.cross_spectrum(clm1, clm2); return spectrum.squeeze()
SpCrossSpectrum ==
    /\ sp.pc = "indexed"
    /\ \E clm1 \in [1..sp.ncoeffs -> CoeffValues] :
       \E clm2 \in SecondArguments(clm1) :
          sp' = [sp EXCEPT
                   !.pc = "done",
                   !.clm1 = clm1,
                   !.clm2 = clm2,
                   !.spectrum = CrossSpectrum(sp.zonal_wavenumber,
                                              sp.total_wavenumber,
                                              sp.truncation, clm1, clm2),
                   !.spectrum_shape = Squeeze(<<sp.truncation + 1>>)]
    /\ UNCHANGED <<nc, pool, eng, tool>>

NextIndex == SpGetspecindx \/ SpCrossSpectrum

SpecIndex == InitIndex /\ [][NextIndex]_vars

RECURSIVE SumSeq(_)
SumSeq(q) == IF q = <<>> THEN 0 ELSE Head(q) + SumSeq(Tail(q))

RECURSIVE SumOver(_, _)
SumOver(f, S) ==
    IF S = {} THEN 0
    ELSE LET x == CHOOSE y \in S : TRUE IN f[x] + SumOver(f, S \ {x})

\* The positions of the index arrays that hold the pair (m, n).
PositionsOf(m, n) ==
    {k \in 1..Len(sp.total_wavenumber) :
        sp.zonal_wavenumber[k] = m /\ sp.total_wavenumber[k] = n}

CoefficientProducts ==
    [k \in 1..sp.ncoeffs |->
        CrossReal(sp.clm1[k],
                  IF sp.clm2 = NoArray THEN sp.clm1[k] ELSE sp.clm2[k])]

\* C5: with the default degrees 0..T every coefficient is added to exactly
\* one degree bin, degree d receives d + 1 coefficients, and the spectrum
\* summed over all degrees is the total of the un-binned coefficient
\* products, weighted by the symmetry weight and the normalisation by 2.
C5_BinsPartition ==
    sp.pc = "done" =>
        LET ms == sp.zonal_wavenumber
            ls == sp.total_wavenumber
            K == 1..sp.ncoeffs
            D == 0..sp.truncation
            weighted == [k \in K |-> SymmetryWeight(ms[k]) * CoefficientProducts[k]]
        IN  /\ \A k \in K :
                  Cardinality({d \in D : DegreeRange(ms[k], ls[k], d)}) = 1
            /\ \A d \in D :
                  Cardinality({k \in K : DegreeRange(ms[k], ls[k], d)}) = d + 1
            /\ Len(sp.spectrum) = sp.truncation + 1
            /\ 2 * SumSeq(sp.spectrum) = SumOver(weighted, K)

\* A cross-spectrum of two different coefficient arrays at the largest
\* truncation, with a non-zero total.
C5_Witness ==
    /\ sp.pc = "done"
    /\ sp.truncation = MaxTrunc
    /\ sp.clm2 # NoArray
    /\ sp.clm2 # sp.clm1
    /\ SumSeq(sp.spectrum) # 0

\* C6: in the 'power' convention the spectrum at degree d is one half of the
\* sum, over the coefficients with total wavenumber d, of w(m) times
\* Re(clm1 * conj(clm2)), w(0) = 1 and w(m) = 2 otherwise; with clm2 omitted
\* the result is that of cross_spectrum(clm1, clm1).
C6_PowerSpectrum ==
    sp.pc = "done" =>
        LET ms == sp.zonal_wavenumber
            ls == sp.total_wavenumber
            w == [k \in 1..sp.ncoeffs |-> IF ms[k] = 0 THEN 1 ELSE 2]
            term == [k \in 1..sp.ncoeffs |-> w[k] * CoefficientProducts[k]]
        IN  /\ \A d \in 0..sp.truncation :
                  2 * sp.spectrum[d + 1] =
                      SumOver(term, {k \in 1..sp.ncoeffs : ls[k] = d})
            /\ sp.clm2 = NoArray =>
                  sp.spectrum = CrossSpectrum(ms, ls, sp.truncation,
                                              sp.clm1, sp.clm1)

\* A power spectrum (clm2 omitted) in which a degree above 0 gets both a
\* zonal (m = 0) and a doubled (m # 0) contribution.
C6_Witness ==
    /\ sp.pc = "done"
    /\ sp.clm2 = NoArray
    /\ sp.truncation >= 1
    /\ sp.spectrum[2] > sp.spectrum[1]

(***************************************************************************)
(* The EnergyBudget object.  Two variants of the class are modelled:       *)
(* "aeb" is src/AtmosphericEnergyBudget.py, built from arrays, and "seba"  *)
(* is src/src/seba.py, built from a dataset parsed by io_tools.            *)
(* An attribute of the object's __dict__ is <<>> when absent and <<v>>     *)
(* when bound to v.                                                        *)
(***************************************************************************)
Variants == {"aeb", "seba"}

Absent == <<>>

Bound(v) == <<v>>

\* The name under which each variant stores the grid type.
GridKey(variant) == IF variant = "aeb" THEN "grid_type" ELSE "gridtype"

\* The attributes of the object that the model follows.
AttrKeys(variant) ==
    {"nlat", "nlon", "nlevels", GridKey(variant), "truncation", "legfunc"}

\* _private_vars without the latitude count.
PrivateVars_NoLat(variant) ==
    IF variant = "aeb"
    THEN {"nlon", "nlevels", "grid_type", "legfunc", "rsphere"}
    ELSE {"nlon", "nlevels", "gridtype"}

\* _private_vars, the read-only instance variables.
PrivateVars(variant) ==
    IF variant = "aeb"
    THEN {"nlon", "nlat", "nlevels", "grid_type", "legfunc", "rsphere"}
    ELSE {"nlon", "nlat", "nlevels", "gridtype"}

\* The values an assignment may bind to a key.
GridTypes == {"regular", "gaussian"}

AttrValues(key) ==
    IF key \in {"grid_type", "gridtype"} THEN GridTypes
    ELSE IF key = "legfunc" THEN {"stored", "computed"}
    ELSE 0..MaxLat

(***************************************************************************)
(* Exact fractions, for the normalisation factors.                         *)
(***************************************************************************)
Rat(n, d) == [num |-> n, den |-> d]

RatEq(a, b) == a.num * b.den = b.num * a.den

RatLess(a, b) == a.num * b.den < b.num * a.den

\* constants.earth_radius and the reciprocal of constants.epsilon; the
\* module constants is not part of the sources, small values stand for
\* 6371200 m and for the small positive epsilon.
EarthRadius == 3

EpsilonInverse == 1000

Epsilon == Rat(1, EpsilonInverse)

\* spectral_analysis.kappa_from_deg squared: n (n + 1) / earth_radius ** 2.
KappaSquared(n) == Rat(n * (n + 1), EarthRadius * EarthRadius)

\* ndarray.clip(lower, None)
ClipBelow(x, lower) == IF RatLess(x, lower) THEN lower ELSE x

\* vector_norm ("aeb": kappa_h ** 2 with entry 0 set to 1.0) and norm
\* ("seba": kappa_h ** 2 clipped from below at epsilon), one entry per degree.
VectorNorm(variant, truncation) ==
    LET kappa2 == [i \in 1..(truncation + 1) |-> KappaSquared(i - 1)]
    IN  IF variant = "aeb"
        THEN [kappa2 EXCEPT ![1] = Rat(1, 1)]
        ELSE [i \in 1..(truncation + 1) |-> ClipBelow(kappa2[i], Epsilon)]

\* np.arange(truncation + 1)
Degrees(truncation) == [i \in 1..(truncation + 1) |-> i - 1]

(***************************************************************************)
(* Construction.                                                           *)
(***************************************************************************)
\* The input fields that may hold a NaN.
Fields == {"u", "v", "t"}

\* The truncation argument is <<>> for None and <<t>> for the integer t.
TruncationArgs == {<<>>} \cup {<<t>> : t \in (-1)..MaxLat}

\* The surface height argument of "aeb": None, an array of shape
\* (nlat, nlon), or an array of another shape.
GhslArgs == {"None", "array", "badshape"}

\* The inputs of a construction.  "seba" takes no surface height and its
\* fields come from one dataset, so their shapes agree.  The surface
\* pressure is omitted or an array of shape (nlat, nlon), the levels are
\* pressure levels and the grid is gaussian.
ConstructorArgs ==
    { a \in [variant : Variants, nlat : 1..MaxLat, samples : 1..2,
             nlevels : 1..2, nan : SUBSET Fields, shapes_match : BOOLEAN,
             ps : {"None", "array"},
             ghsl : GhslArgs, truncation : TruncationArgs] :
        a.variant = "seba" => (a.ghsl = "None" /\ a.shapes_match) }

\* The number of longitudes of the grids used.
Nlon(a) == 2 * a.nlat

\* The shape of the stored wind, np.stack((u, v)) of prepared fields.
WindShape(a) == <<2, a.nlat, Nlon(a), a.samples, a.nlevels>>

\* The shape of the stored potential temperature perturbation.
ThetaShape(a) == <<a.nlat, Nlon(a), a.samples, a.nlevels>>

\* The fields whose NaNs stop the construction.
NanChecked(variant) == IF variant = "aeb" THEN {"u", "v"} ELSE {"u", "v", "t"}

\* The truncation test of the constructor.
TruncationInRange_Loose(t, nlat) == ~(t < 0 \/ t > nlat)

TruncationInRange(t, nlat) == ~(t < 0 \/ t > nlat - 1)

\* The exception that ends the constructor, None when it completes.
ConstructError(a) ==
    IF a.nan \cap NanChecked(a.variant) # {} THEN "ValueError"
    ELSE IF ~a.shapes_match THEN "ValueError"
    ELSE IF a.ghsl = "badshape" THEN "ValueError"
    ELSE IF a.truncation # <<>> /\ ~TruncationInRange(a.truncation[1], a.nlat)
         THEN "ValueError"
    ELSE IF a.variant = "aeb" /\ a.ghsl = "None" THEN "AttributeError"
    ELSE None

\* The truncation the constructor stores.
StoredTruncation(a) ==
    IF a.truncation = <<>> THEN a.nlat - 1 ELSE a.truncation[1]

\* The record of a call: the operation, the attribute it names or the kind
\* of tendency it is given, the shape of that tendency, the exception
\* raised, the number of spectral transforms a tendency call ran, and
\* whether the call returned.
Call(op, key, shape, error, transforms, returned) ==
    [op |-> op, key |-> key, shape |-> shape, error |-> error,
     transforms |-> transforms, returned |-> returned]

\* __dict__ after a completed constructor.
ConstructedDict(a) ==
    [k \in AttrKeys(a.variant) |->
        CASE k = "nlat" -> Bound(a.nlat)
          [] k = "nlon" -> Bound(Nlon(a))
          [] k = "nlevels" -> Bound(a.nlevels)
          [] k = GridKey(a.variant) -> Bound("gaussian")
          [] k = "truncation" -> Bound(StoredTruncation(a))
          [] OTHER -> Absent]

InitEngine ==
    /\ eng = [pc |-> "new"]
    /\ nc = IdleNc
    /\ pool = IdlePool
    /\ sp = IdleSp
    /\ tool = IdleTool

\* EnergyBudget(...): the whole constructor.  When it raises, no object
\* exists.
Construct ==
    /\ eng.pc = "new"
    /\ \E a \in ConstructorArgs :
          LET error == ConstructError(a)
          IN  IF error # None
              THEN eng' = [pc |-> "failed", args |-> a,
                           call |-> Call("__init__", "", <<>>, error, 0, FALSE)]
              ELSE eng' = [pc |-> "ready", args |-> a,
                           dict |-> ConstructedDict(a),
                           degrees |-> Degrees(StoredTruncation(a)),
                           norm |-> VectorNorm(a.variant, StoredTruncation(a)),
                           wind_shape |-> WindShape(a),
                           theta_shape |-> ThetaShape(a),
                           message |-> <<>>,
                           call |-> Call("__init__", "", <<>>, None, 0, TRUE)]
    /\ UNCHANGED <<nc, pool, sp, tool>>

IsBound(x) == Len(x) > 0

\* __setattr__(key, val)
SetAttr(key, val) ==
    /\ eng.pc = "ready"
    /\ key \in AttrKeys(eng.args.variant)
    /\ val \in AttrValues(key)
    /\ IF IsBound(eng.dict[key]) /\ key \in PrivateVars(eng.args.variant)
       THEN eng' = [eng EXCEPT
                !.message = <<>>,
                !.call = Call("__setattr__", key, <<>>, "AttributeError", 0, FALSE)]
       ELSE eng' = [eng EXCEPT
                !.message = <<>>,
                !.dict[key] = Bound(val),
                !.call = Call("__setattr__", key, <<>>, None, 0, TRUE)]
    /\ UNCHANGED <<nc, pool, sp, tool>>

\* __delattr__(key)
DelAttr(key) ==
    /\ eng.pc = "ready"
    /\ key \in AttrKeys(eng.args.variant)
    /\ IF IsBound(eng.dict[key]) /\ key \in PrivateVars(eng.args.variant)
       THEN eng' = [eng EXCEPT
                !.message = <<>>,
                !.call = Call("__delattr__", key, <<>>, "AttributeError", 0, FALSE)]
       ELSE IF ~IsBound(eng.dict[key])
       THEN eng' = [eng EXCEPT
                !.message = <<>>,
                !.call = Call("__delattr__", key, <<>>, "KeyError", 0, FALSE)]
       ELSE eng' = [eng EXCEPT
                !.message = <<>>,
                !.dict[key] = Absent,
                !.call = Call("__delattr__", key, <<>>, None, 0, TRUE)]
    /\ UNCHANGED <<nc, pool, sp, tool>>

\* The kinds of tendency argument each variant distinguishes.
TendencyKinds(variant) ==
    IF variant = "aeb" THEN {"ndarray"} ELSE {"ndarray", "DataArray"}

\* The shapes of the tendencies offered: that of the stored wind, that of
\* the stored potential temperature perturbation, and a 2D one.  For a
\* DataArray it is the shape prepare_data brings its values to.
TendencyShapes ==
    {eng.wind_shape, eng.theta_shape, <<eng.args.nlat, Nlon(eng.args)>>}

\* The outcome of a tendency call, as <<exception, transforms>>, given the
\* shape the stored field has.  An ndarray is tested against the stored
\* shape.  A DataArray is not: it fails on its missing gp_coords, or in
\* prepare_data when it has fewer than three dimensions, or on the assert
\* of the spectra routine, and is transformed otherwise.
TendencyOutcomes(kind, shape, stored) ==
    IF kind = "ndarray"
    THEN IF shape # stored THEN {<<"ValueError", 0>>} ELSE {<<None, 2>>}
    ELSE {<<"AttributeError", 0>>} \cup
         (IF Len(shape) < 3 THEN {<<"ValueError", 0>>}
          ELSE IF shape # stored THEN {<<"AssertionError", 0>>}
          ELSE {<<None, 2>>})

\* The shapes a ValueError of the shape test of an ndarray names:
\* "Expecting {}, but got {}".format(expected, got).  Other errors carry no
\* shapes.
ShapeMessage(kind, error, expected, got) ==
    IF kind = "ndarray" /\ error = "ValueError"
    THEN <<expected, got>> ELSE <<>>

\* get_ke_tendency(tendency): the message is formatted with
\* self.wind.shape and tendency.shape.
GetKeTendency(kind, shape) ==
    /\ eng.pc = "ready"
    /\ kind \in TendencyKinds(eng.args.variant)
    /\ shape \in TendencyShapes
    /\ \E out \in TendencyOutcomes(kind, shape, eng.wind_shape) :
          eng' = [eng EXCEPT
              !.message = ShapeMessage(kind, out[1], eng.wind_shape, shape),
              !.call = Call("get_ke_tendency", kind, shape,
                            out[1], out[2], out[1] = None)]
    /\ UNCHANGED <<nc, pool, sp, tool>>

\* get_ape_tendency(tendency): the tendency is compared with the stored
\* potential temperature perturbation; the message is formatted with
\* self.wind.shape and tendency.shape.
GetApeTendency(kind, shape) ==
    /\ eng.pc = "ready"
    /\ kind \in TendencyKinds(eng.args.variant)
    /\ shape \in TendencyShapes
    /\ \E out \in TendencyOutcomes(kind, shape, eng.theta_shape) :
          eng' = [eng EXCEPT
              !.message = ShapeMessage(kind, out[1], eng.wind_shape, shape),
              !.call = Call("get_ape_tendency", kind, shape,
                            out[1], out[2], out[1] = None)]
    /\ UNCHANGED <<nc, pool, sp, tool>>

AllKeys == AttrKeys("aeb") \cup AttrKeys("seba")

AllShapes ==
    UNION {{WindShape(a), ThetaShape(a), <<a.nlat, Nlon(a)>>} :
              a \in ConstructorArgs}

NextEngine ==
    \/ Construct
    \/ \E key \in AllKeys : \E val \in AttrValues(key) : SetAttr(key, val)
    \/ \E key \in AllKeys : DelAttr(key)
    \/ \E kind \in {"ndarray", "DataArray"} : \E shape \in AllShapes :
          GetKeTendency(kind, shape)
    \/ \E kind \in {"ndarray", "DataArray"} : \E shape \in AllShapes :
          GetApeTendency(kind, shape)

SpecEngine == InitEngine /\ [][NextEngine]_vars

(***************************************************************************)
(* Properties of the EnergyBudget object.                                  *)
(***************************************************************************)
\* The attributes that fix the grid: the sizes and the grid type.
GridAttributes(variant) == {"nlat", "nlon", "nlevels", GridKey(variant)}

\* C3: once an EnergyBudget is constructed, nlat, nlon, nlevels and the
\* grid type keep the values the constructor gave them under every sequence
\* of attribute assignments and deletions, and each assignment to or
\* deletion of one of them raises AttributeError.
C3_ReadOnlyAttributes ==
    eng.pc = "ready" =>
        /\ \A k \in GridAttributes(eng.args.variant) :
              eng.dict[k] = ConstructedDict(eng.args)[k]
        /\ ( /\ eng.call.op \in {"__setattr__", "__delattr__"}
             /\ eng.call.key \in GridAttributes(eng.args.variant) )
           => (eng.call.error = "AttributeError" /\ ~eng.call.returned)

\* A deletion of nlat was refused after another attribute had been removed.
C3_Witness ==
    /\ eng.pc = "ready"
    /\ eng.call.op = "__delattr__"
    /\ eng.call.key = "nlat"
    /\ eng.call.error = "AttributeError"
    /\ eng.dict["truncation"] = Absent
    /\ eng.dict["nlat"] = Bound(eng.args.nlat)

\* C7: the normalisation of the vector cross-spectra is n (n + 1) / r ** 2
\* at every degree n >= 1 and exactly 1 at degree 0.
C7_VectorNormalization ==
    eng.pc = "ready" =>
        \A n \in 0..(Len(eng.norm) - 1) :
            RatEq(eng.norm[n + 1],
                  IF n = 0 THEN Rat(1, 1) ELSE KappaSquared(n))

\* C8: a tendency whose shape differs from the stored wind shape
\* (get_ke_tendency) or from the stored potential temperature perturbation
\* shape (get_ape_tendency) raises ValueError, before any spectral
\* transform is run, and the call returns nothing.
C8_TendencyShapeChecked ==
    eng.pc = "ready" =>
        LET stored == IF eng.call.op = "get_ke_tendency"
                      THEN eng.wind_shape ELSE eng.theta_shape
        IN  ( /\ eng.call.op \in {"get_ke_tendency", "get_ape_tendency"}
              /\ eng.call.shape # stored )
            => /\ eng.call.error = "ValueError"
               /\ eng.call.transforms = 0
               /\ ~eng.call.returned

\* C9: a construction whose zonal wind, meridional wind or temperature
\* holds a NaN fails with an error and produces no object.
C9_NanIsFatal ==
    (eng.pc \in {"ready", "failed"} /\ eng.args.nan # {}) =>
        (eng.pc = "failed" /\ eng.call.error # None)

ConversionTerms ==
    {"wind_shear,omega*wind_rot", "wind_rot,omega*wind_shear",
     "wind_div,fc*rotate(wind_rot)", "wind_rot,fc*rotate(wind_div)",
     "wind_div,vrt*rotate(wind_rot)", "wind_rot,vrt*rotate(wind_div)"}

\* The values the backend may give a pair at degree 0; degree d holds
\* d + 1 times as much.
BackendValues == {-2, 2}

\* _vector_spectra(vector_1, vector_2) of the engine e, one entry per degree.
VectorSpectra(e, term) ==
    [i \in 1..(e.truncation + 1) |-> e.backend[term] * i]

\* ndarray arithmetic, element by element.
Neg(a) == [i \in 1..Len(a) |-> 0 - a[i]]

Add(a, b) == [i \in 1..Len(a) |-> a[i] + b[i]]

Sub(a, b) == [i \in 1..Len(a) |-> a[i] - b[i]]

Halve(a) == [i \in 1..Len(a) |-> a[i] \div 2]

\* conversion_dke_rke_vertical()
ConversionDkeRkeVertical(e) ==
    LET first == Neg(VectorSpectra(e, "wind_shear,omega*wind_rot"))
        dke_rke_omega == Sub(first, VectorSpectra(e, "wind_rot,omega*wind_shear"))
    IN  Halve(dke_rke_omega)

\* conversion_dke_rke_coriolis()
ConversionDkeRkeCoriolis(e) ==
    LET div_term == VectorSpectra(e, "wind_div,fc*rotate(wind_rot)")
        rot_term == VectorSpectra(e, "wind_rot,fc*rotate(wind_div)")
    IN  Halve(Sub(div_term, rot_term))

\* conversion_dke_rke_vorticity()
ConversionDkeRkeVorticity(e) ==
    LET div_term == VectorSpectra(e, "wind_div,vrt*rotate(wind_rot)")
        rot_term == VectorSpectra(e, "wind_rot,vrt*rotate(wind_div)")
    IN  Halve(Sub(div_term, rot_term))

\* conversion_dke_rke without the vertical transfer.
ConversionDkeRke_NoVertical(e) ==
    Add(ConversionDkeRkeVorticity(e), ConversionDkeRkeCoriolis(e))

\* conversion_dke_rke()
ConversionDkeRke(e) ==
    LET vorticity_advection == ConversionDkeRkeVorticity(e)
        linear_conversion == ConversionDkeRkeCoriolis(e)
        vertical_transfer == ConversionDkeRkeVertical(e)
    IN  Add(Add(vorticity_advection, linear_conversion), vertical_transfer)

\* nonlinear_energy_fluxes(): the conversion fields of the exported
\* dataset.  The other fields of the dataset are not followed.
NonlinearEnergyFluxes(e) ==
    LET cdr_w == ConversionDkeRkeVertical(e)
        cdr_v == ConversionDkeRkeVorticity(e)
        cdr_c == ConversionDkeRkeCoriolis(e)
        cdr == Add(Add(cdr_w, cdr_v), cdr_c)
    IN  [cdr_w |-> cdr_w, cdr_v |-> cdr_v, cdr_c |-> cdr_c, cdr |-> cdr]

ConversionOps ==
    {"conversion_dke_rke", "conversion_dke_rke_vertical",
     "conversion_dke_rke_vorticity", "conversion_dke_rke_coriolis"}

InitConversion ==
    /\ \E t \in 0..MaxTrunc : \E b \in [ConversionTerms -> BackendValues] :
          eng = [pc |-> "constructed", truncation |-> t, backend |-> b,
                 call |-> [op |-> "__init__"]]
    /\ nc = IdleNc
    /\ pool = IdlePool
    /\ sp = IdleSp
    /\ tool = IdleTool

\* A call of one of the four conversion methods.
CallConversion(op) ==
    /\ eng.pc = "constructed"
    /\ op \in ConversionOps
    /\ LET result == CASE op = "conversion_dke_rke" -> ConversionDkeRke(eng)
                       [] op = "conversion_dke_rke_vertical" -> ConversionDkeRkeVertical(eng)
                       [] op = "conversion_dke_rke_vorticity" -> ConversionDkeRkeVorticity(eng)
                       [] OTHER -> ConversionDkeRkeCoriolis(eng)
       IN  eng' = [eng EXCEPT !.call = [op |-> op, result |-> result]]
    /\ UNCHANGED <<nc, pool, sp, tool>>

\* A call of nonlinear_energy_fluxes.
CallNonlinearEnergyFluxes ==
    /\ eng.pc = "constructed"
    /\ eng' = [eng EXCEPT !.call = [op |-> "nonlinear_energy_fluxes",
                                    result |-> NonlinearEnergyFluxes(eng)]]
    /\ UNCHANGED <<nc, pool, sp, tool>>

NextConversion ==
    \/ \E op \in ConversionOps : CallConversion(op)
    \/ CallNonlinearEnergyFluxes

SpecConversion == InitConversion /\ [][NextConversion]_vars

\* C11: conversion_dke_rke() is, at every degree, the sum of the vertical,
\* vorticity and coriolis conversions of the same engine, and the 'cdr'
\* field of nonlinear_energy_fluxes is the sum of its 'cdr_w', 'cdr_v' and
\* 'cdr_c' fields.
C11_ConversionClosure ==
    eng.pc = "constructed" =>
        /\ eng.call.op = "conversion_dke_rke" =>
              \A i \in 1..(eng.truncation + 1) :
                  eng.call.result[i] = ConversionDkeRkeVertical(eng)[i]
                                       + ConversionDkeRkeVorticity(eng)[i]
                                       + ConversionDkeRkeCoriolis(eng)[i]
        /\ eng.call.op = "nonlinear_energy_fluxes" =>
              /\ \A i \in 1..(eng.truncation + 1) :
                    eng.call.result.cdr[i] = eng.call.result.cdr_w[i]
                                             + eng.call.result.cdr_v[i]
                                             + eng.call.result.cdr_c[i]
              /\ eng.call.result.cdr = ConversionDkeRke(eng)

\* A total conversion in which all three parts are non-zero.
C11_Witness ==
    /\ eng.pc = "constructed"
    /\ eng.call.op = "conversion_dke_rke"
    /\ eng.truncation = MaxTrunc
    /\ ConversionDkeRkeVertical(eng)[1] # 0
    /\ ConversionDkeRkeVorticity(eng)[1] # 0
    /\ ConversionDkeRkeCoriolis(eng)[1] # 0
    /\ eng.call.result[1] # 0

(***************************************************************************)
(* tools.terrain_mask and the terrain mask beta of the "aeb" constructor.  *)
(* Mask values are held in units of one half: 0 is 0.0 and 2 is 1.0.  The  *)
(* pressure profile p has one entry per level, the surface pressure ps one *)
(* entry per column of the grid.                                           *)
(***************************************************************************)
\* 0.0 and 1.0 in units of one half.
BetaZero == 0

BetaOne == 2

\* np.nan, a value no comparison places in a range.
NaN == 99

\* The number of grid columns (nlat * nlon) of the masks built.
NumColumns == 2

\* The pressures of the levels and of the surface.
PressureValues == 1..MaxLevels

SurfaceValues == 0..(MaxLevels + 1)

\* np.sort(p): ascending order.
SortAscending(p) ==
    LET below(v) == Cardinality({j \in 1..Len(p) : p[j] < v})
        upto(v) == Cardinality({j \in 1..Len(p) : p[j] <= v})
    IN  [i \in 1..Len(p) |->
            CHOOSE v \in {p[j] : j \in 1..Len(p)} : below(v) < i /\ i <= upto(v)]

\* np.searchsorted with side='right'.
SearchSorted_Right(a, v) ==
    CHOOSE i \in 0..Len(a) :
        /\ \A j \in 1..i : a[j] <= v
        /\ \A j \in (i + 1)..Len(a) : v < a[j]

\* np.searchsorted(a, v): the first index at which v can be inserted into
\* the ascending array a keeping it ascending.
SearchSorted(a, v) ==
    CHOOSE i \in 0..Len(a) :
        /\ \A j \in 1..i : a[j] < v
        /\ \A j \in (i + 1)..Len(a) : v <= a[j]

\* level_m = p.size - np.searchsorted(np.sort(p), ps), for one column.
LevelM(p, ps_ij) == Len(p) - SearchSorted(SortAscending(p), ps_ij)

\* beta = zeros; beta[ij][level_m[ij]:] = 1.0 (levels are indexed from 0).
StepMask(p, ps) ==
    [c \in 1..Len(ps) |->
        [k \in 1..Len(p) |->
            IF k - 1 >= LevelM(p, ps[c]) THEN BetaOne ELSE BetaZero]]

\* What the convolution of lowpass_lanczos may put at a point: values
\* below 0.0, inside the range, above 1.0, and NaN.
FilterValues == {-1, 0, 1, 2, 3, NaN}

\* result[np.isnan(result)] = 1.0 left out.
ReplaceNaN_Skipped(x) == x

\* result[np.isnan(result)] = 1.0
ReplaceNaN(x) == IF x = NaN THEN BetaOne ELSE x

\* lowpass_lanczos(beta, ...): the filtered array differs from beta by the
\* value the convolution gives at the point (c, k).
LowpassLanczos(beta, c, k, v) ==
    LET result == [beta EXCEPT ![c][k] = v]
    IN  [cc \in 1..Len(result) |->
            [kk \in 1..Len(result[cc]) |-> ReplaceNaN(result[cc][kk])]]

\* ndarray.clip(0.0, 1.0) of one element; NaN stays NaN.
Clip01(x) ==
    IF x = NaN THEN NaN
    ELSE IF x < BetaZero THEN BetaZero
    ELSE IF x > BetaOne THEN BetaOne
    ELSE x

ClipMask(beta) ==
    [c \in 1..Len(beta) |-> [k \in 1..Len(beta[c]) |-> Clip01(beta[c][k])]]

\* np.ones((nlat, nlon, nlevels))
OnesMask(columns, nlevels) ==
    [c \in 1..columns |-> [k \in 1..nlevels |-> BetaOne]]

Profiles == UNION {[1..n -> PressureValues] : n \in 1..MaxLevels}

InitMask ==
    /\ \E p \in Profiles : \E ps \in [1..NumColumns -> SurfaceValues] :
          tool = [pc |-> "call", p |-> p, ps |-> ps, op |-> "", smooth |-> FALSE,
                  beta |-> <<>>]
    /\ nc = IdleNc
    /\ pool = IdlePool
    /\ sp = IdleSp
    /\ eng = IdleEng

\* terrain_mask(p, ps, smooth=False)
TerrainMaskStep ==
    /\ tool.pc = "call"
    /\ tool' = [tool EXCEPT !.pc = "done", !.op = "terrain_mask",
                            !.smooth = FALSE,
                            !.beta = ClipMask(StepMask(tool.p, tool.ps))]
    /\ UNCHANGED <<nc, pool, sp, eng>>

\* terrain_mask(p, ps, smooth=True)
TerrainMaskSmooth ==
    /\ tool.pc = "call"
    /\ \E c \in 1..NumColumns : \E k \in 1..Len(tool.p) : \E v \in FilterValues :
          tool' = [tool EXCEPT
              !.pc = "done", !.op = "terrain_mask", !.smooth = TRUE,
              !.beta = ClipMask(LowpassLanczos(StepMask(tool.p, tool.ps), c, k, v))]
    /\ UNCHANGED <<nc, pool, sp, eng>>

\* The beta of the "aeb" constructor with filter_terrain=False.
EngineBetaDisabled ==
    /\ tool.pc = "call"
    /\ tool' = [tool EXCEPT !.pc = "done", !.op = "__init__",
                            !.beta = OnesMask(NumColumns, Len(tool.p))]
    /\ UNCHANGED <<nc, pool, sp, eng>>

NextMask == TerrainMaskStep \/ TerrainMaskSmooth \/ EngineBetaDisabled

SpecMask == InitMask /\ [][NextMask]_vars

\* p[0] > p[1] > ... : a surface-first pressure profile.
SurfaceFirst(p) == \A k \in 1..(Len(p) - 1) : p[k] > p[k + 1]

C13_BetaInUnitRange ==
    tool.pc = "done" =>
        \A c \in 1..NumColumns : \A k \in 1..Len(tool.p) :
            /\ tool.beta[c][k] # NaN
            /\ 0 <= tool.beta[c][k]
            /\ tool.beta[c][k] <= 2

\* A smoothed mask with a value strictly between 0 and 1 next to a
\* clipped one.
C13_Witness ==
    /\ tool.pc = "done"
    /\ tool.smooth
    /\ \E c \in 1..NumColumns : \E k \in 1..Len(tool.p) : tool.beta[c][k] = 1
    /\ \E c \in 1..NumColumns : \E k \in 1..Len(tool.p) : tool.beta[c][k] = 2

(***************************************************************************)
(* tools.cumulative_flux.  A spectrum holds one value per degree 0..N, at  *)
(* positions 1..N+1 of a sequence.                                         *)
(***************************************************************************)
SpectrumValues == {-1, 0, 1}

\* range(2, spectra.shape[0]): the degrees the loop visits.
FluxLoopRange(spectra) == 2..(Len(spectra) - 1)

\* spectra[ln:].sum(axis=0)
TailSum(spectra, ln) == SumSeq(SubSeq(spectra, ln + 1, Len(spectra)))

\* cumulative_flux(spectra)
CumulativeFlux(spectra) ==
    LET spectral_flux == [i \in 1..Len(spectra) |-> 0]
    IN  [i \in 1..Len(spectra) |->
            IF (i - 1) \in FluxLoopRange(spectra)
            THEN TailSum(spectra, i - 1)
            ELSE spectral_flux[i]]

InitFlux ==
    /\ \E n \in 1..MaxDegrees : \E s \in [1..n -> SpectrumValues] :
          tool = [pc |-> "call", spectra |-> s, spectral_flux |-> <<>>]
    /\ nc = IdleNc
    /\ pool = IdlePool
    /\ sp = IdleSp
    /\ eng = IdleEng

\* cumulative_flux(spectra)
CallCumulativeFlux ==
    /\ tool.pc = "call"
    /\ tool' = [tool EXCEPT !.pc = "done",
                            !.spectral_flux = CumulativeFlux(tool.spectra)]
    /\ UNCHANGED <<nc, pool, sp, eng>>

NextFlux == CallCumulativeFlux

SpecFlux == InitFlux /\ [][NextFlux]_vars

\* C14: for a spectrum over the degrees 0..N and every degree l in 0..N,
\* cumulative_flux(spectra)[l] is the sum of spectra[k] over the degrees k
\* from l up to N.
C14_CumulativeFlux ==
    tool.pc = "done" =>
        \A l \in 0..(Len(tool.spectra) - 1) :
            tool.spectral_flux[l + 1] =
                SumOver(tool.spectra, (l + 1)..Len(tool.spectra))

(***************************************************************************)
(* _pack_levels and _unpack_levels of both variants, on array shapes.  A   *)
(* reshape in one index order keeps the elements in place, so an array is  *)
(* followed by its shape.                                                  *)
(***************************************************************************)
ArrayKinds == {"scalar", "spectral", "vector", "profile"}

\* The sizes of the engine that packs: nlat, nlon, samples, nlevels and the
\* number of spectral coefficients of its truncation.
EngineSizes ==
    { z \in [nlat : 1..MaxLat, nlon : 1..(2 * MaxLat), samples : 1..2,
             nlevels : 1..MaxLevels, truncation : 0..(MaxLat - 1)] :
        z.nlon = 2 * z.nlat /\ z.truncation <= z.nlat - 1 }

\* (truncation + 1) * (truncation + 2) / 2
NumCoeffs(truncation) == ((truncation + 1) * (truncation + 2)) \div 2

\* The shape of an array of each kind.
ShapeOf(kind, z) ==
    CASE kind = "scalar" -> <<z.nlat, z.nlon, z.samples, z.nlevels>>
      [] kind = "spectral" -> <<NumCoeffs(z.truncation), z.samples, z.nlevels>>
      [] kind = "profile" -> <<z.nlevels>>
      [] OTHER -> <<2, z.nlat, z.nlon, z.samples, z.nlevels>>

RECURSIVE Prod(_)
Prod(shape) == IF shape = <<>> THEN 1 ELSE Head(shape) * Prod(Tail(shape))

\* np.shape(data)[:n]
Leading(shape, n) == SubSeq(shape, 1, IF n < Len(shape) THEN n ELSE Len(shape))

\* np.reshape(data, new_shape + (-1,))
ReshapeTail(shape, new_shape) ==
    Append(new_shape, Prod(shape) \div Prod(new_shape))

\* The axes of the array that _pack_levels keeps, <<>> when it raises.
\* The tests are made in the order of the code.
PackPrefix(shape, z) ==
    LET data_length == shape[1]
    IN  IF data_length = 2 THEN <<3>>
        ELSE IF data_length = z.nlat THEN <<2>>
        ELSE IF data_length = NumCoeffs(z.truncation) THEN <<1>>
        ELSE <<>>

\* _pack_levels(data), for an array it accepts.
PackLevels(shape, z) ==
    Squeeze(ReshapeTail(shape, Leading(shape, PackPrefix(shape, z)[1])))

\* _unpack_levels(data): "aeb" squeezes the unpacked array, "seba" does not.
UnpackLevels(variant, shape, z) ==
    IF shape[Len(shape)] = z.samples * z.nlevels
    THEN LET new_shape == SubSeq(shape, 1, Len(shape) - 1)
                              \o <<z.samples, z.nlevels>>
         IN  IF variant = "aeb" THEN Squeeze(new_shape) ELSE new_shape
    ELSE shape

InitShape ==
    /\ \E variant \in Variants : \E z \in EngineSizes : \E kind \in ArrayKinds :
          tool = [pc |-> "call", variant |-> variant, sizes |-> z, kind |-> kind,
                  shape |-> ShapeOf(kind, z), packed |-> <<>>,
                  unpacked |-> <<>>, error |-> None]
    /\ nc = IdleNc
    /\ pool = IdlePool
    /\ sp = IdleSp
    /\ eng = IdleEng

\* self._pack_levels(data)
CallPackLevels ==
    /\ tool.pc = "call"
    /\ IF PackPrefix(tool.shape, tool.sizes) = <<>>
       THEN tool' = [tool EXCEPT !.pc = "raised", !.error = "ValueError"]
       ELSE tool' = [tool EXCEPT !.pc = "packed",
                                 !.packed = PackLevels(tool.shape, tool.sizes)]
    /\ UNCHANGED <<nc, pool, sp, eng>>

\* self._unpack_levels(packed); np.shape(data)[-1] of a 0-dimensional
\* array raises IndexError.
CallUnpackLevels ==
    /\ tool.pc = "packed"
    /\ IF tool.packed = <<>>
       THEN tool' = [tool EXCEPT !.pc = "raised", !.error = "IndexError"]
       ELSE tool' = [tool EXCEPT
                !.pc = "unpacked",
                !.unpacked = UnpackLevels(tool.variant, tool.packed, tool.sizes)]
    /\ UNCHANGED <<nc, pool, sp, eng>>

NextShape == CallPackLevels \/ CallUnpackLevels

SpecShape == InitShape /\ [][NextShape]_vars

\* C15: a grid field of shape (nlat, nlon, samples, nlevels) packed with
\* _pack_levels and unpacked with _unpack_levels has its original shape
\* again, also when samples = 1 or nlevels = 1.
C15_PackUnpackRoundTrip ==
    (tool.kind = "scalar" /\ tool.pc \in {"unpacked", "raised"}) =>
        /\ tool.pc = "unpacked"
        /\ tool.unpacked = tool.shape

(***************************************************************************)
(* tools.prepare_data and tools.recover_data.  An array is a shape and a   *)
(* function from the index tuples of that shape (indices from 0) to its    *)
(* elements; a dimension order is a sequence of one-letter strings.        *)
(***************************************************************************)
Ranks == {2, 3, 4}

Letters == {"x", "y", "z", "t"}

\* The index tuples of an array of the given shape.
Indices(shape) ==
    {i \in [1..Len(shape) -> 0..(MaxDim + 1)] :
        \A k \in 1..Len(shape) : i[k] < shape[k]}

\* The position of an element in C order.
Flat(i, shape) ==
    SumOver([k \in 1..Len(shape) |->
                i[k] * Prod(SubSeq(shape, k + 1, Len(shape)))],
            1..Len(shape))

\* ndarray.reshape(new_shape), in C order.
Reshape(a, new_shape) ==
    [shape |-> new_shape,
     at |-> [j \in Indices(new_shape) |->
                a.at[CHOOSE i \in Indices(a.shape) :
                        Flat(i, a.shape) = Flat(j, new_shape)]]]

\* str.find(dim): the index of the letter, -1 when it is absent.
Find(order, dim) ==
    IF \E k \in 1..Len(order) : order[k] = dim
    THEN (CHOOSE k \in 1..Len(order) :
             order[k] = dim /\ \A l \in 1..(k - 1) : order[l] # dim) - 1
    ELSE -1

\* The positions of the axes in the order longitude, latitude, levels.
SpatialDims_XYZ(order) == <<Find(order, "x"), Find(order, "y"), Find(order, "z")>>

\* [dim_order.find(dim) for dim in 'yxz']
SpatialDims(order) == <<Find(order, "y"), Find(order, "x"), Find(order, "z")>>

\* A sequence with val inserted before position pos (from 0): list.insert.
InsertAt(q, pos, val) ==
    SubSeq(q, 1, pos) \o <<val>> \o SubSeq(q, pos + 1, Len(q))

\* The axes 0..ndim-1 that are not in source, ascending.
RECURSIVE RestAxes(_, _, _)
RestAxes(n, ndim, source) ==
    IF n >= ndim THEN <<>>
    ELSE (IF \E k \in 1..Len(source) : source[k] = n THEN <<>> ELSE <<n>>)
         \o RestAxes(n + 1, ndim, source)

\* for dest, src in sorted(zip(destination, source)): order.insert(dest, src)
RECURSIVE InsertSorted(_, _, _, _)
InsertSorted(order, source, destination, todo) ==
    IF todo = {} THEN order
    ELSE LET k == CHOOSE k \in todo :
                      \A l \in todo : destination[k] <= destination[l]
         IN  InsertSorted(InsertAt(order, destination[k], source[k]),
                          source, destination, todo \ {k})

\* The axis permutation of np.moveaxis(a, source, destination); negative
\* axes count from the end.
MoveAxisOrder(ndim, source, destination) ==
    LET norm(q) == [k \in 1..Len(q) |-> IF q[k] < 0 THEN q[k] + ndim ELSE q[k]]
    IN  InsertSorted(RestAxes(0, ndim, norm(source)), norm(source),
                     norm(destination), 1..Len(source))

\* ndarray.transpose(order)
Transpose(a, order) ==
    LET new_shape == [k \in 1..Len(order) |-> a.shape[order[k] + 1]]
    IN  [shape |-> new_shape,
         at |-> [j \in Indices(new_shape) |->
                    a.at[[ax \in 1..Len(order) |->
                            j[CHOOSE k \in 1..Len(order) : order[k] = ax - 1]]]]]

\* np.moveaxis(a, source, destination)
MoveAxis(a, source, destination) ==
    Transpose(a, MoveAxisOrder(Len(a.shape), source, destination))

\* The exception prepare_data raises, None when it raises none.
PrepareError(data, dim_order) ==
    IF Len(data.shape) < 3 THEN "ValueError"
    ELSE IF Len(dim_order) > Len(data.shape) THEN "ValueError"
    ELSE IF Find(dim_order, "x") < 0 \/ Find(dim_order, "y") < 0 THEN "ValueError"
    ELSE IF Find(dim_order, "z") < 0 THEN "ValueError"
    ELSE None

\* prepare_data(data, dim_order): the prepared array and info_dict.
PrepareData(data, dim_order) ==
    LET moved == MoveAxis(data, SpatialDims(dim_order), <<0, 1, -1>>)
        inter_shape == moved.shape
        last == inter_shape[Len(inter_shape)]
        samples == Prod(inter_shape) \div (inter_shape[1] * inter_shape[2] * last)
    IN  [data |-> Reshape(moved, <<inter_shape[1], inter_shape[2], samples, last>>),
         info_dict |-> [interm_shape |-> inter_shape,
                        origin_order |-> dim_order]]

\* recover_data(data, info_dict)
RecoverData(data, info_dict) ==
    MoveAxis(Reshape(data, info_dict.interm_shape),
             <<0, 1, -1>>, SpatialDims(info_dict.origin_order))

\* The arrays offered: every shape of the ranks, each element tagged with
\* its own index tuple.
InputArrays ==
    {[shape |-> s, at |-> [i \in Indices(s) |-> i]] :
        s \in UNION {[1..r -> 1..MaxDim] : r \in Ranks}}

\* The dimension orders offered for an array: its rank in distinct letters.
InputOrders(a) ==
    {o \in [1..Len(a.shape) -> Letters] :
        \A k, l \in 1..Len(a.shape) : o[k] = o[l] => k = l}

InitPrepare ==
    /\ \E a \in InputArrays : \E o \in InputOrders(a) :
          tool = [pc |-> "call", data |-> a, dim_order |-> o, error |-> None]
    /\ nc = IdleNc
    /\ pool = IdlePool
    /\ sp = IdleSp
    /\ eng = IdleEng

\* prepare_data(data, dim_order)
CallPrepareData ==
    /\ tool.pc = "call"
    /\ LET error == PrepareError(tool.data, tool.dim_order)
       IN  IF error # None
           THEN tool' = [pc |-> "raised", data |-> tool.data,
                         dim_order |-> tool.dim_order, error |-> error]
           ELSE tool' = [pc |-> "prepared", data |-> tool.data,
                         dim_order |-> tool.dim_order, error |-> None,
                         prepared |-> PrepareData(tool.data, tool.dim_order)]
    /\ UNCHANGED <<nc, pool, sp, eng>>

\* recover_data(pdata, info_dict)
CallRecoverData ==
    /\ tool.pc = "prepared"
    /\ tool' = [pc |-> "recovered", data |-> tool.data,
                dim_order |-> tool.dim_order, error |-> None,
                prepared |-> tool.prepared,
                recovered |-> RecoverData(tool.prepared.data,
                                          tool.prepared.info_dict)]
    /\ UNCHANGED <<nc, pool, sp, eng>>

NextPrepare == CallPrepareData \/ CallRecoverData

SpecPrepare == InitPrepare /\ [][NextPrepare]_vars

\* An array of at least 3 dimensions with an order naming x, y and z.
ValidPrepareInput ==
    /\ Len(tool.data.shape) >= 3
    /\ \A d \in {"x", "y", "z"} : \E k \in 1..Len(tool.dim_order) : tool.dim_order[k] = d

\* The axis of the input array that the order names d.
AxisOf(d) == CHOOSE k \in 1..Len(tool.dim_order) : tool.dim_order[k] = d

New(dst, src) == [k |-> "new", dst |-> dst, src |-> src]

View(dst, src) == [k |-> "view", dst |-> dst, src |-> <<src>>]

InPlace(dst, src) == [k |-> "inplace", dst |-> dst, src |-> src]

\* A backend transform that hands back the array it was given.
Transform_Same(dst, src) == View(dst, src)

\* A transform of the backend (grdtospec, spectogrd, getvrtdivspec,
\* getgrad, getpsichi): "aeb" sends the chunks to the workers of a pool
\* and concatenates the results, "seba" calls the backend; a new array.
Transform(dst, src) == New(dst, <<src>>)

\* The stored arrays the diagnostics read, in the order of their cells.
StoredNames(variant) ==
    IF variant = "aeb"
    THEN <<"self.wind", "self.omega", "self.theta_pbn", "self.wind_shear",
           "self.div", "self.vrt", "self.vector_norm", "self.exner",
           "self.ganma", "self.beta", "self.ddp_theta_pbn">>
    ELSE <<"self.wind", "self.omega", "self.theta_prime", "self.wind_shear",
           "self.div", "self.vrt", "self.norm", "self.exner",
           "self.ganma", "self.beta_fraction", "self.wind_rot">>

NumStored == Len(StoredNames("aeb"))

LocalNames ==
    {"tendency", "packed", "scalar_ml", "result", "scalar_1sc", "scalar_2sc",
     "clm_sqd", "spectrum", "spectrum_1", "spectrum_2", "rotdiv_1",
     "rotdiv_2", "product", "kinetic_energy", "scalar_gradient",
     "scalar_divergence", "scalar_advection", "advection_term",
     "advective_flux", "vertical_trans", "theta_advection",
     "theta_gradient", "theta_tendency", "tendency_pbn", "norm", "sf", "vp",
     "sf_grad", "vp_grad", "linear_term", "tk_l", "ta_l", "pi_k", "pi_a",
     "pik_l", "pia_l", "spectral_flux", "other", "returned"}

AllNames ==
    LocalNames \cup {StoredNames(v)[i] : v \in Variants, i \in 1..NumStored}

\* transform_io around a transform: the argument is packed (a reshaped
\* view), transformed, and the result unpacked (a view of the result).
TransformIo(dst, src) ==
    <<View("packed", src), Transform("result", "packed"), View(dst, "result")>>

\* cross_spectrum(clm1, clm2): "aeb" fills an array of zeros degree by
\* degree and halves it in place; "seba" accumulates the product over the
\* orders and divides by the mask fraction.
CrossSpectrumCode(variant, dst, clm1, clm2) ==
    IF variant = "aeb"
    THEN <<New("clm_sqd", <<clm1, clm2>>), New("spectrum", <<>>),
           InPlace("spectrum", <<"clm_sqd">>), InPlace("spectrum", <<>>),
           View(dst, "spectrum")>>
    ELSE <<New("clm_sqd", <<clm1, clm2>>), New("spectrum", <<"clm_sqd">>),
           New(dst, <<"spectrum", "self.beta_fraction">>)>>

\* _scalar_spectra(scalar_1, scalar_2)
ScalarSpectra(variant, dst, scalar_1, scalar_2) ==
    TransformIo("scalar_1sc", scalar_1) \o TransformIo("scalar_2sc", scalar_2)
    \o CrossSpectrumCode(variant, dst, "scalar_1sc", "scalar_2sc")

\* _vector_spectra(vector_1, vector_2): "aeb" adds the two cross-spectra,
\* "seba" adds the second to the first in place; both divide by the
\* normalisation.
VectorSpectraOf(variant, dst, vector_1, vector_2) ==
    TransformIo("rotdiv_1", vector_1) \o TransformIo("rotdiv_2", vector_2)
    \o CrossSpectrumCode(variant, "spectrum_1", "rotdiv_1", "rotdiv_2")
    \o CrossSpectrumCode(variant, "spectrum_2", "rotdiv_1", "rotdiv_2")
    \o (IF variant = "aeb"
        THEN <<New("spectrum", <<"spectrum_1", "spectrum_2">>),
               New(dst, <<"spectrum", "self.vector_norm">>)>>
        ELSE <<InPlace("spectrum_1", <<"spectrum_2">>),
               New(dst, <<"spectrum_1", "self.norm">>)>>)

\* horizontal_gradient(scalar): "aeb" transforms the scalar, packs the
\* coefficients and takes their gradient; "seba" takes the gradient.
HorizontalGradient(variant, dst, scalar) ==
    IF variant = "aeb"
    THEN <<View("packed", scalar)>> \o TransformIo("scalar_ml", "packed")
         \o <<View("scalar_ml", "scalar_ml"), Transform("result", "scalar_ml"),
              View(dst, "result")>>
    ELSE TransformIo(dst, scalar)

\* _wind_advection: the gradient of the kinetic energy plus the product of
\* the vorticity and the rotated wind.
WindAdvection(variant, dst) ==
    <<New("kinetic_energy", <<"self.wind">>)>>
    \o HorizontalGradient(variant, "scalar_gradient", "kinetic_energy")
    \o <<New("product", <<"self.vrt", "self.wind">>),
         New(dst, <<"scalar_gradient", "product">>)>>

\* _scalar_advection(scalar): "aeb" multiplies the wind and the gradient
\* of the scalar, "seba" takes the divergence of the scalar flux and
\* subtracts the scalar times the divergence.
ScalarAdvection(variant, dst, scalar) ==
    IF variant = "aeb"
    THEN HorizontalGradient(variant, "scalar_gradient", scalar)
         \o <<New("product", <<"scalar_gradient">>),
              New("scalar_advection", <<"self.wind", "product">>),
              New(dst, <<"scalar_advection">>)>>
    ELSE <<New("product", <<scalar, "self.wind">>)>>
         \o TransformIo("scalar_divergence", "product")
         \o TransformIo("scalar_divergence", "scalar_divergence")
         \o <<New("product", <<"self.div", scalar>>),
              New(dst, <<"scalar_divergence", "product">>)>>

\* get_ke_tendency(tendency), for an ndarray of the shape of the wind.
GetKeTendencyCode(variant, dst, tendency) ==
    <<View("tendency", tendency)>>
    \o VectorSpectraOf(variant, dst, "self.wind", "tendency")

\* get_ape_tendency(tendency), for an ndarray of the stored shape: "aeb"
\* removes the representative mean and filters the terrain.
GetApeTendencyCode(variant, dst, tendency) ==
    <<View("tendency", tendency)>>
    \o (IF variant = "aeb"
        THEN <<New("norm", <<"self.beta">>),
               New("product", <<"self.beta", "tendency">>),
               New("product", <<"product", "norm">>),
               New("tendency_pbn", <<"tendency", "product">>),
               New("theta_tendency", <<"tendency_pbn", "self.exner">>),
               New("theta_tendency", <<"self.beta", "theta_tendency">>)>>
           \o ScalarSpectra(variant, "spectrum", "self.theta_pbn", "theta_tendency")
        ELSE <<New("product", <<"tendency", "self.exner">>),
               New("theta_tendency", <<"product">>)>>
           \o ScalarSpectra(variant, "spectrum", "self.theta_prime", "theta_tendency"))
    \o <<New(dst, <<"self.ganma", "spectrum">>)>>

\* ke_nonlinear_transfer()
KeNonlinearTransfer(variant, dst) ==
    WindAdvection(variant, "scalar_advection")
    \o <<New("product", <<"self.div", "self.wind">>),
         New("product", <<"product">>),
         New("advection_term", <<"scalar_advection", "product">>)>>
    \o (IF variant = "aeb"
        THEN GetKeTendencyCode(variant, "other", "advection_term")
        ELSE VectorSpectraOf(variant, "other", "self.wind", "advection_term"))
    \o <<New("advective_flux", <<"other">>),
         New("product", <<"self.omega", "self.wind">>)>>
    \o VectorSpectraOf(variant, "vertical_trans", "self.wind_shear", "product")
    \o <<New("product", <<"self.omega", "self.wind_shear">>)>>
    \o VectorSpectraOf(variant, "other", "self.wind", "product")
    \o <<InPlace("vertical_trans", <<"other">>),
         New("product", <<"vertical_trans">>),
         New(dst, <<"advective_flux", "product">>)>>

\* ape_nonlinear_transfer(): "aeb" reads the stored vertical gradient of
\* the perturbation, "seba" computes it and adds to the advection in place.
ApeNonlinearTransfer(variant, dst) ==
    (IF variant = "aeb"
     THEN ScalarAdvection(variant, "scalar_advection", "self.theta_pbn")
          \o <<New("product", <<"self.div", "self.theta_pbn">>),
               New("product", <<"product">>),
               New("theta_advection", <<"scalar_advection", "product">>)>>
          \o ScalarSpectra(variant, "other", "self.theta_pbn", "theta_advection")
          \o <<New("advection_term", <<"other">>),
               New("product", <<"self.omega", "self.theta_pbn">>)>>
          \o ScalarSpectra(variant, "vertical_trans", "self.ddp_theta_pbn", "product")
          \o <<New("product", <<"self.omega", "self.ddp_theta_pbn">>)>>
          \o ScalarSpectra(variant, "other", "self.theta_pbn", "product")
     ELSE ScalarAdvection(variant, "theta_advection", "self.theta_prime")
          \o <<New("product", <<"self.div", "self.theta_prime">>),
               New("product", <<"product">>),
               InPlace("theta_advection", <<"product">>)>>
          \o ScalarSpectra(variant, "other", "self.theta_prime", "theta_advection")
          \o <<New("advection_term", <<"other">>),
               New("theta_gradient", <<"self.theta_prime">>),
               New("product", <<"self.omega", "self.theta_prime">>)>>
          \o ScalarSpectra(variant, "vertical_trans", "theta_gradient", "product")
          \o <<New("product", <<"self.omega", "theta_gradient">>)>>
          \o ScalarSpectra(variant, "other", "self.theta_prime", "product"))
    \o <<InPlace("vertical_trans", <<"other">>),
         New("product", <<"vertical_trans">>),
         New("product", <<"advection_term", "product">>),
         New(dst, <<"self.ganma", "product">>)>>

\* coriolis_linear_transfer() of "aeb": the gradients of the stream
\* function and of the velocity potential are scaled in place.
CoriolisLinearTransfer(variant, dst) ==
    <<Transform("sf", "self.wind"), Transform("vp", "self.wind")>>
    \o HorizontalGradient(variant, "sf_grad", "sf")
    \o HorizontalGradient(variant, "vp_grad", "vp")
    \o <<InPlace("vp_grad", <<>>), InPlace("sf_grad", <<>>),
         New("product", <<"self.div", "vp_grad">>)>>
    \o ScalarSpectra(variant, "linear_term", "sf", "product")
    \o <<New("product", <<"self.vrt", "sf_grad">>)>>
    \o ScalarSpectra(variant, "other", "vp", "product")
    \o <<InPlace("linear_term", <<"other">>), New(dst, <<"linear_term">>)>>

\* tools.cumulative_flux(spectra): an array of zeros filled degree by
\* degree.
CumulativeFluxCode(dst, spectra) ==
    <<New("spectral_flux", <<>>), InPlace("spectral_flux", <<spectra>>),
      View(dst, "spectral_flux")>>

\* vertical_integration(scalar): the levels of the range are taken and
\* integrated.
VerticalIntegration(dst, scalar) ==
    <<New("product", <<scalar>>), New("product", <<"product">>),
      New(dst, <<"product">>)>>

\* cumulative_energy_fluxes() of "aeb"
CumulativeEnergyFluxes(variant, dst) ==
    KeNonlinearTransfer(variant, "tk_l")
    \o ApeNonlinearTransfer(variant, "ta_l")
    \o CumulativeFluxCode("pi_k", "tk_l")
    \o CumulativeFluxCode("pi_a", "ta_l")
    \o VerticalIntegration("pik_l", "pi_k")
    \o VerticalIntegration("pia_l", "pi_a")
    \o <<New(dst, <<"pik_l", "pia_l">>)>>

\* conversion_dke_rke_vertical() of "seba"
ConversionDkeRkeVerticalCode(variant, dst) ==
    <<New("product", <<"self.omega", "self.wind_rot">>)>>
    \o VectorSpectraOf(variant, "other", "self.wind_shear", "product")
    \o <<New("vertical_trans", <<"other">>),
         New("product", <<"self.omega", "self.wind_shear">>)>>
    \o VectorSpectraOf(variant, "other", "self.wind_rot", "product")
    \o <<InPlace("vertical_trans", <<"other">>),
         New(dst, <<"vertical_trans">>)>>

\* The diagnostic methods followed for each variant.
Diagnostics(variant) ==
    {"get_ke_tendency", "get_ape_tendency", "ke_nonlinear_transfer",
     "ape_nonlinear_transfer"} \cup
    (IF variant = "aeb"
     THEN {"coriolis_linear_transfer", "cumulative_energy_fluxes"}
     ELSE {"conversion_dke_rke_vertical"})

AllDiagnostics == UNION {Diagnostics(v) : v \in Variants}

\* The statements of a method; "arg" is the caller's array and the value
\* returned is bound to "returned".
CodeOf(variant, method) ==
    CASE method = "get_ke_tendency" -> GetKeTendencyCode(variant, "returned", "arg")
      [] method = "get_ape_tendency" -> GetApeTendencyCode(variant, "returned", "arg")
      [] method = "ke_nonlinear_transfer" -> KeNonlinearTransfer(variant, "returned")
      [] method = "ape_nonlinear_transfer" -> ApeNonlinearTransfer(variant, "returned")
      [] method = "coriolis_linear_transfer" -> CoriolisLinearTransfer(variant, "returned")
      [] method = "cumulative_energy_fluxes" -> CumulativeEnergyFluxes(variant, "returned")
      [] OTHER -> ConversionDkeRkeVerticalCode(variant, "returned")

\* The values an array is told apart by.
ArrayValues == {0, 1, 2}

Cell(v) == [val |-> v, written |-> FALSE]

\* The value of an array computed from the arrays src names.
Combine(st, src) ==
    (1 + SumOver([i \in 1..Len(src) |-> st.heap[st.env[src[i]]].val],
                 1..Len(src))) % 3

\* One statement, on the names env and the cells heap.
Exec(s, st) ==
    CASE s.k = "new" ->
           [env |-> [st.env EXCEPT ![s.dst] = Len(st.heap) + 1],
            heap |-> Append(st.heap, Cell(Combine(st, s.src)))]
      [] s.k = "view" ->
           [env |-> [st.env EXCEPT ![s.dst] = st.env[s.src[1]]],
            heap |-> st.heap]
      [] OTHER ->
           [env |-> st.env,
            heap |-> [st.heap EXCEPT ![st.env[s.dst]] =
                        [val |-> (@.val + Combine(st, s.src)) % 3,
                         written |-> TRUE]]]

\* The statements lo..hi of code, in order; the state between the two
\* halves is bound as the element of a singleton, so it is computed once.
RECURSIVE RunRange(_, _, _, _)
RunRange(code, lo, hi, st) ==
    IF lo > hi THEN st
    ELSE IF lo = hi THEN Exec(code[lo], st)
    ELSE LET mid == (lo + hi) \div 2
         IN CHOOSE r \in {RunRange(code, mid + 1, hi, m) :
                             m \in {RunRange(code, lo, mid, st)}} : TRUE

Run(code, st) == RunRange(code, 1, Len(code), st)

\* The names at the entry of a method: the stored arrays and the caller's.
EntryEnv(e) ==
    [n \in AllNames \cup {"arg"} |->
        IF n = "arg" THEN NumStored + 1
        ELSE IF \E i \in 1..NumStored : StoredNames(e.variant)[i] = n
             THEN e.attrs[CHOOSE i \in 1..NumStored : StoredNames(e.variant)[i] = n]
             ELSE 0]

\* The stored arrays of an engine built from the fields wind, omega and
\* theta: the shear, the divergence, the vorticity and the rotational wind
\* come from the wind, the vertical gradient and the stability parameter
\* from the potential temperature.
BuiltFrom(variant, wind, omega, theta) ==
    <<wind, omega, theta, wind, wind, wind, 1, 1, theta, 1,
      IF variant = "aeb" THEN theta ELSE wind>>

InitDiagnostics ==
    /\ \E variant \in Variants, wind \in ArrayValues, omega \in ArrayValues,
          theta \in ArrayValues :
          LET built == BuiltFrom(variant, wind, omega, theta)
          IN eng = [pc |-> "constructed", variant |-> variant, built |-> built,
                    attrs |-> [i \in 1..NumStored |-> i],
                    heap |-> [i \in 1..NumStored |-> Cell(built[i])],
                    method |-> "none", arg |-> Cell(0), returned |-> 0]
    /\ nc = IdleNc /\ pool = IdlePool /\ sp = IdleSp /\ tool = IdleTool

\* A diagnostic method is called with the caller's array arg and returns;
\* the arrays it made are dropped with its names.
CallDiagnostic(method, arg) ==
    /\ eng.pc = "constructed"
    /\ method \in Diagnostics(eng.variant)
    /\ \E st \in {Run(CodeOf(eng.variant, method),
                      [env |-> EntryEnv(eng),
                       heap |-> Append(eng.heap, Cell(arg))])} :
          eng' = [eng EXCEPT
                    !.attrs = [i \in 1..NumStored |->
                                  st.env[StoredNames(eng.variant)[i]]],
                    !.heap = SubSeq(st.heap, 1, NumStored),
                    !.method = method,
                    !.arg = st.heap[NumStored + 1],
                    !.returned = st.heap[st.env["returned"]].val]
    /\ UNCHANGED <<nc, pool, sp, tool>>

NextDiagnostics ==
    \E method \in AllDiagnostics, arg \in ArrayValues :
        CallDiagnostic(method, arg)

SpecDiagnostics == InitDiagnostics /\ [][NextDiagnostics]_vars

\* C17: after any sequence of diagnostic calls every stored array is the
\* array bound at construction, holds the value it was built with and was
\* never written in place.
C17_DiagnosticsFrame ==
    (eng.pc = "constructed" /\ "method" \in DOMAIN eng) =>
        \A i \in 1..NumStored :
            /\ eng.attrs[i] = i
            /\ eng.heap[i] = Cell(eng.built[i])

\* A method that updates arrays in place has returned.
C17_Witness ==
    /\ eng.pc = "constructed" /\ "method" \in DOMAIN eng
    /\ eng.method \in {"ke_nonlinear_transfer", "coriolis_linear_transfer",
                       "conversion_dke_rke_vertical"}
    /\ eng.built[1] = 1

(***************************************************************************)
(* Failure of a worker of a parallel transform (SpecPool).                 *)
(***************************************************************************)
\* A chunk of the running stage raised in its worker.
SomeChunkFailed ==
    /\ pool.pc \in {"running", "raised"}
    /\ \E i \in 1..pool.jobs : pool.status[i] = "failed"

\* C18: once a worker of a parallel transform has failed, the call can only
\* wait for the other workers and raise: it never returns, no output is
\* built from the chunks that completed, and the data of the caller is not
\* replaced; the call that raised stays raised.
C18_WorkerFailureRaises ==
    [][SomeChunkFailed =>
          /\ pool'.pc \in {"running", "raised"}
          /\ pool'.output = None
          /\ pool'.data = pool.data
          /\ pool'.stages = pool.stages
          /\ (pool.pc = "running" /\ AllFinished) => pool'.pc = "raised"]_vars

\* The call raised although a worker had completed its chunk.
C18_Witness ==
    /\ pool.pc = "raised"
    /\ pool.jobs >= 2
    /\ \E i \in 1..pool.jobs : pool.status[i] = "failed"
    /\ \E i \in 1..pool.jobs :
          pool.status[i] = "ok" /\ pool.results[i] # <<>>

(***************************************************************************)
(* Assignments to the spectral index set and the grid description of a     *)
(* constructed engine.  "aeb" stores truncation, zonal_wavenumber,         *)
(* total_wavenumber, degrees, lats and weights; "seba" stores truncation,  *)
(* degrees, latitude and weights and leaves the wavenumbers to its sphere  *)
(* object.  nlat is followed along with them for comparison.               *)
(***************************************************************************)
IndexSetKeys(variant) ==
    IF variant = "aeb"
    THEN {"truncation", "zonal_wavenumber", "total_wavenumber", "degrees",
          "lats", "weights"}
    ELSE {"truncation", "degrees", "latitude", "weights"}

\* The value the constructor bound, and another one.
Constructed == "constructed"

Rebound == "rebound"

InitIndexSet ==
    /\ \E variant \in Variants :
          eng = [pc |-> "ready", args |-> [variant |-> variant],
                 dict |-> [k \in IndexSetKeys(variant) \cup {"nlat"} |->
                              Bound(Constructed)],
                 call |-> Call("__init__", "", <<>>, None, 0, TRUE)]
    /\ nc = IdleNc /\ pool = IdlePool /\ sp = IdleSp /\ tool = IdleTool

\* __setattr__(key, val) for a key of the index set, the grid description
\* or nlat.
SetIndexAttr(key, val) ==
    /\ eng.pc = "ready"
    /\ key \in DOMAIN eng.dict
    /\ IF IsBound(eng.dict[key]) /\ key \in PrivateVars(eng.args.variant)
       THEN eng' = [eng EXCEPT
                !.call = Call("__setattr__", key, <<>>, "AttributeError", 0, FALSE)]
       ELSE eng' = [eng EXCEPT
                !.dict[key] = Bound(val),
                !.call = Call("__setattr__", key, <<>>, None, 0, TRUE)]
    /\ UNCHANGED <<nc, pool, sp, tool>>

NextIndexSet ==
    \E key \in IndexSetKeys("aeb") \cup IndexSetKeys("seba") \cup {"nlat"},
       val \in {Constructed, Rebound} : SetIndexAttr(key, val)

SpecIndexSet == InitIndexSet /\ [][NextIndexSet]_vars

\* C19: on a constructed engine the attributes of the spectral index set
\* and of the grid description keep the value the constructor bound, and
\* every assignment to one of them raises AttributeError.
C19_IndexSetReadOnly ==
    eng.pc = "ready" =>
        /\ \A k \in IndexSetKeys(eng.args.variant) :
              eng.dict[k] = Bound(Constructed)
        /\ ( /\ eng.call.op = "__setattr__"
             /\ eng.call.key \in IndexSetKeys(eng.args.variant) )
           => (eng.call.error = "AttributeError" /\ ~eng.call.returned)

(***************************************************************************)
(* The fraction of unmasked points of a level, used as a divisor.  The     *)
(* mask beta holds 0 at a masked point and 1 elsewhere; a level is given   *)
(* by the number of unmasked points in each row of latitude.  "aeb"        *)
(* divides by the clipped global average of beta in _representative_mean;  *)
(* "seba" stores beta_fraction = representative_mean(beta) and divides     *)
(* every cross-spectrum by it.                                             *)
(***************************************************************************)
\* The quadrature weights of the rows of latitude.
GridWeights == <<1, 2>>

MaskLevels == {"lower", "upper"}

\* The longitudes of a row.
RowPoints == NumColumns

\* np.average(beta, weights=weights, axis=0).mean(axis=0) at one level:
\* rows[i] of the RowPoints points of row i are unmasked.
GlobalAverage(rows) ==
    Rat(SumSeq([i \in 1..Len(GridWeights) |-> GridWeights[i] * rows[i]]),
        SumSeq(GridWeights) * RowPoints)

\* ndarray.clip(lower, upper)
Clip(x, lower, upper) ==
    IF RatLess(x, lower) THEN lower ELSE IF RatLess(upper, x) THEN upper ELSE x

\* The divisor of a level: norm of _representative_mean ("aeb"),
\* beta_fraction ("seba").
MaskFraction(variant, rows) ==
    IF variant = "aeb"
    THEN Clip(GlobalAverage(rows), Epsilon, Rat(1, 1))
    ELSE GlobalAverage(rows)

\* A division of floating-point arrays: where the divisor is 0 the result
\* is inf or nan.
DivideBy(d) == IF d.num = 0 THEN "divide by zero" ELSE "finite"

InitFraction ==
    /\ \E variant \in Variants,
          beta \in [MaskLevels -> [1..Len(GridWeights) -> 0..RowPoints]] :
          tool = [pc |-> "masked", variant |-> variant, beta |-> beta]
    /\ nc = IdleNc /\ pool = IdlePool /\ sp = IdleSp /\ eng = IdleEng

\* The divisor is computed from the mask.
ComputeFraction ==
    /\ tool.pc = "masked"
    /\ tool' = [pc |-> "fraction", variant |-> tool.variant, beta |-> tool.beta,
                divisor |-> [z \in MaskLevels |->
                                MaskFraction(tool.variant, tool.beta[z])]]
    /\ UNCHANGED <<nc, pool, sp, eng>>

\* weighted average / norm ("aeb"), spectrum.real / self.beta_fraction
\* ("seba")
DivideByFraction ==
    /\ tool.pc = "fraction"
    /\ tool' = [pc |-> "divided", variant |-> tool.variant, beta |-> tool.beta,
                divisor |-> tool.divisor,
                quotient |-> [z \in MaskLevels |-> DivideBy(tool.divisor[z])]]
    /\ UNCHANGED <<nc, pool, sp, eng>>

NextFraction == ComputeFraction \/ DivideByFraction

SpecFraction == InitFraction /\ [][NextFraction]_vars

\* C20: the mask fraction used as a divisor is strictly positive at every
\* level, whatever the mask, and no division by it is a division by zero.
C20_FractionPositive ==
    /\ tool.pc \in {"fraction", "divided"} =>
          \A z \in MaskLevels : tool.divisor[z].num > 0 /\ tool.divisor[z].den > 0
    /\ tool.pc = "divided" =>
          \A z \in MaskLevels : tool.quotient[z] = "finite"

(***************************************************************************)
(* The shapes named by the error of a rejected tendency (SpecEngine).      *)
(***************************************************************************)
\* C21: when get_ke_tendency or get_ape_tendency rejects an ndarray for its
\* shape, the message names the shape of the stored field the tendency was
\* compared with as the expected one and the shape of the tendency as the
\* actual one.
C21_ShapeMessage ==
    ( /\ eng.pc = "ready"
      /\ eng.call.op \in {"get_ke_tendency", "get_ape_tendency"}
      /\ eng.call.key = "ndarray"
      /\ eng.call.error = "ValueError" )
    => eng.message =
         <<IF eng.call.op = "get_ke_tendency"
           THEN eng.wind_shape ELSE eng.theta_shape,
           eng.call.shape>>

(***************************************************************************)
(* The order of the kinematic steps of the constructor, followed on one    *)
(* column of the wind: raw holds the wind of the levels from the surface   *)
(* up, beta is 0 on the levels below the surface.  Values are in units of  *)
(* one half, the levels evenly spaced.                                     *)
(***************************************************************************)
WindValues == {1, 2}

\* The unsmoothed mask of a column whose lowest `below` levels lie under
\* the surface.
ColumnMask(below) == [k \in 1..MaxLevels |-> IF k <= below THEN 0 ELSE 1]

\* filter_topography(x), and a masked array filled with zeros: beta * x.
FilterTopography(x, beta) == [k \in 1..Len(x) |-> beta[k] * x[k]]

\* The vorticity and divergence of a level are computed from the wind of
\* that level.
VorticityDivergence(wind) == [k \in 1..Len(wind) |-> 2 * wind[k]]

\* np.gradient along the levels with edge_order=2: centred differences
\* inside, second-order one-sided differences at both ends.
VerticalGradient(x) ==
    LET n == Len(x)
    IN [k \in 1..n |->
          IF k = 1 THEN 4 * x[2] - 3 * x[1] - x[3]
          ELSE IF k = n THEN 3 * x[n] - 4 * x[n - 1] + x[n - 2]
          ELSE x[k + 1] - x[k - 1]]

\* vertical_gradient of "seba" for a masked field: the gradient of the
\* filled field minus the field times the gradient of its mask.
MaskedVerticalGradient(x, beta) ==
    [k \in 1..Len(x) |->
        VerticalGradient(x)[k] - VerticalGradient(beta)[k] * x[k]]

InitKinematics ==
    /\ \E variant \in Variants, raw \in [1..MaxLevels -> WindValues],
          below \in 0..(MaxLevels - 1) :
          tool = [pc |-> "fields", variant |-> variant, raw |-> raw,
                  beta |-> ColumnMask(below), wind |-> <<>>, vrt |-> <<>>,
                  wind_shear |-> <<>>]
    /\ nc = IdleNc /\ pool = IdlePool /\ sp = IdleSp /\ eng = IdleEng

\* self.wind: "aeb" stacks the components with filtered=False, "seba"
\* stacks the fields get_field has masked below the surface.
StoreWind ==
    /\ tool.pc = "fields"
    /\ tool' = [tool EXCEPT
                  !.pc = "wind",
                  !.wind = IF tool.variant = "aeb" THEN tool.raw
                           ELSE FilterTopography(tool.raw, tool.beta)]
    /\ UNCHANGED <<nc, pool, sp, eng>>

\* self.vorticity_divergence(): "seba" masks the result.
StoreVorticityDivergence ==
    /\ tool.pc = "wind"
    /\ tool' = [tool EXCEPT
                  !.pc = "vrt",
                  !.vrt = IF tool.variant = "aeb"
                          THEN VorticityDivergence(tool.wind)
                          ELSE FilterTopography(VorticityDivergence(tool.wind),
                                                tool.beta)]
    /\ UNCHANGED <<nc, pool, sp, eng>>

\* self.wind_shear: the vertical gradient of the stored wind; with it the
\* kinematic steps of "seba" end.
StoreWindShear ==
    /\ tool.pc = "vrt"
    /\ tool' = [tool EXCEPT
                  !.pc = IF tool.variant = "aeb" THEN "shear" ELSE "done",
                  !.wind_shear =
                      IF tool.variant = "aeb" THEN VerticalGradient(tool.wind)
                      ELSE MaskedVerticalGradient(tool.wind, tool.beta)]
    /\ UNCHANGED <<nc, pool, sp, eng>>

\* "aeb": self.wind = self.filter_topography(self.wind) and the same for
\* the wind shear.
FilterWind ==
    /\ tool.pc = "shear"
    /\ tool' = [tool EXCEPT
                  !.pc = "done",
                  !.wind = FilterTopography(tool.wind, tool.beta),
                  !.wind_shear = FilterTopography(tool.wind_shear, tool.beta)]
    /\ UNCHANGED <<nc, pool, sp, eng>>

NextKinematics ==
    StoreWind \/ StoreVorticityDivergence \/ StoreWindShear \/ FilterWind

SpecKinematics == InitKinematics /\ [][NextKinematics]_vars

\* C22: the vorticity and divergence and the wind shear are those of the
\* wind as supplied, computed while the stored wind is not yet masked; at
\* the end the stored wind and the wind shear are these values times the
\* mask.
C22_ShearBeforeMask ==
    /\ tool.pc \in {"vrt", "shear"} => tool.wind = tool.raw
    /\ tool.pc \in {"vrt", "shear", "done"} =>
          \A k \in 1..MaxLevels :
             tool.beta[k] = 1 => tool.vrt[k] = VorticityDivergence(tool.raw)[k]
    /\ tool.pc = "done" =>
          /\ tool.wind = FilterTopography(tool.raw, tool.beta)
          /\ tool.wind_shear =
                FilterTopography(VerticalGradient(tool.raw), tool.beta)

(***************************************************************************)
(* The kind of array _pack_levels takes its argument for (SpecShape).      *)
(***************************************************************************)
\* The number of leading axes an array of each kind keeps when packed.
KeptAxes(kind) ==
    CASE kind = "vector" -> 3 [] kind = "scalar" -> 2 [] OTHER -> 1

\* C23: _pack_levels packs a grid-point scalar, a spectral array and a
\* vector to their leading axes followed by one axis of length
\* samples * nlevels, and raises for none of them.
C23_PackRecognisesKind ==
    (tool.pc # "call" /\ tool.kind \in {"scalar", "spectral", "vector"}) =>
        /\ ~(tool.pc = "raised" /\ tool.error = "ValueError")
        /\ tool.packed # <<>> =>
              tool.packed = Append(Leading(tool.shape, KeptAxes(tool.kind)),
                                   tool.sizes.samples * tool.sizes.nlevels)

(***************************************************************************)
(* The shape of a vector spectrum of "aeb": the rotational and divergent   *)
(* coefficients of a vector, their cross-spectra binned by degree, and the *)
(* division by vector_norm, of shape (truncation + 1, 1, 1).               *)
(***************************************************************************)
\* A shape with axes of length 1 put in front until it has n axes.
PadLeft(shape, n) ==
    [i \in 1..n |-> IF i <= n - Len(shape) THEN 1
                    ELSE shape[i - (n - Len(shape))]]

\* The shape of a / b for arrays of shapes a and b that broadcast, <<0>>
\* when they do not.
Broadcast(a, b) ==
    LET n == IF Len(a) > Len(b) THEN Len(a) ELSE Len(b)
        x == PadLeft(a, n)
        y == PadLeft(b, n)
    IN  IF \A i \in 1..n : x[i] = y[i] \/ x[i] = 1 \/ y[i] = 1
        THEN [i \in 1..n |-> IF x[i] = 1 THEN y[i] ELSE x[i]]
        ELSE <<0>>

\* rot, div = self._compute_rotdiv(vector): the packed vector is
\* transformed to (2, ncoeffs, samples * nlevels) and unpacked; each of the
\* two is the array without its first axis.
RotDivShape(z) ==
    Tail(UnpackLevels("aeb",
                      <<2, NumCoeffs(z.truncation), z.samples * z.nlevels>>, z))

\* cross_spectrum(clm1, clm2): np.zeros((degrees.size,) + clm1.shape[1:]),
\* filled degree by degree and squeezed.  clm1.shape[0] of an array without
\* axes, and a first axis that the wavenumber arrays do not index, raise
\* IndexError: <<0>>.
CrossSpectrumShape(clm, z) ==
    IF clm = <<>> \/ clm[1] # NumCoeffs(z.truncation) THEN <<0>>
    ELSE Squeeze(<<z.truncation + 1>> \o Tail(clm))

\* np.expand_dims(self.kappa_h ** 2, (-1, -2))
VectorNormShape(z) == <<z.truncation + 1, 1, 1>>

\* _vector_spectra(vector_1, vector_2): the sum of two cross-spectra
\* divided by vector_norm.
VectorSpectraShape(z) ==
    LET spectrum == CrossSpectrumShape(RotDivShape(z), z)
    IN  IF spectrum = <<0>> THEN <<0>>
        ELSE Broadcast(spectrum, VectorNormShape(z))

InitSpectraShape ==
    /\ \E z \in EngineSizes :
          tool = [pc |-> "call", sizes |-> z, op |-> None, shape |-> <<>>]
    /\ nc = IdleNc /\ pool = IdlePool /\ sp = IdleSp /\ eng = IdleEng

\* horizontal_kinetic_energy() and _vector_spectra(...) divide spectra of
\* the same shape by vector_norm.
CallVectorSpectra(op) ==
    /\ tool.pc = "call"
    /\ LET shape == VectorSpectraShape(tool.sizes)
       IN  tool' = [tool EXCEPT
                      !.pc = IF shape = <<0>> THEN "raised" ELSE "returned",
                      !.op = op,
                      !.shape = IF shape = <<0>> THEN <<>> ELSE shape]
    /\ UNCHANGED <<nc, pool, sp, eng>>

NextSpectraShape ==
    \E op \in {"horizontal_kinetic_energy", "_vector_spectra"} :
        CallVectorSpectra(op)

SpecSpectraShape == InitSpectraShape /\ [][NextSpectraShape]_vars

\* C24: a vector spectrum has the degree axis of length truncation + 1
\* first, followed only by the sample and level axes (those of length 1
\* possibly squeezed): the division by vector_norm adds no axis and changes
\* no length.
C24_VectorSpectraAxes ==
    tool.pc = "returned" =>
        \/ tool.shape = <<tool.sizes.truncation + 1, tool.sizes.samples,
                          tool.sizes.nlevels>>
        \/ tool.shape = Squeeze(<<tool.sizes.truncation + 1, tool.sizes.samples,
                                  tool.sizes.nlevels>>)
        \/ tool.shape = <<tool.sizes.truncation + 1>>
                          \o Squeeze(<<tool.sizes.samples, tool.sizes.nlevels>>)

(***************************************************************************)
(* Construction without surface pressure and surface height (SpecEngine).  *)
(***************************************************************************)
\* C25: a construction that omits ps and ghsl, with fields free of NaN, of
\* matching shapes and a truncation in range, completes without error.
C25_SurfaceOptional ==
    ( /\ eng.pc \in {"ready", "failed"}
      /\ eng.args.ps = "None" /\ eng.args.ghsl = "None"
      /\ eng.args.nan = {} /\ eng.args.shapes_match
      /\ ( eng.args.truncation = <<>>
           \/ TruncationInRange(eng.args.truncation[1], eng.args.nlat) ) )
    => eng.pc = "ready"

(***************************************************************************)
(* parse_dataset(dataset) with the default variable names.  A dataset is   *)
(* given by the variables that can be found in it, by name or by the CF    *)
(* conventions; its fields hold no NaN and have at least three dimensions. *)
(***************************************************************************)
DefaultVariables == <<"u_wind", "v_wind", "omega", "temperature", "pressure">>

DatasetVariables ==
    {"u_wind", "v_wind", "omega", "temperature", "pressure", "w_wind"}

\* _find_variable(dataset, name, raise_notfound)
FindVariable(present, name, raise_notfound) ==
    IF name \in present THEN "found"
    ELSE IF raise_notfound THEN "ValueError" ELSE None

\* The lookups of parse_dataset in order: the five default variables with
\* raise_notfound=True, then, if arrays has no omega, w_wind.  The value is
\* the error that ends the function, None when it returns.
ParseError(present) ==
    IF \E i \in 1..Len(DefaultVariables) :
          FindVariable(present, DefaultVariables[i], TRUE) = "ValueError"
    THEN "ValueError"
    ELSE IF /\ FindVariable(present, "omega", TRUE) = None
            /\ FindVariable(present, "w_wind", TRUE) = "ValueError"
    THEN "ValueError"
    ELSE None

\* Where the omega of the returned dataset comes from.  arrays holds the
\* result of the first lookup of omega; the estimate from w_wind is taken
\* only if arrays.get('omega') is None.
OmegaSource(present) ==
    IF FindVariable(present, "omega", TRUE) = None THEN "w_wind"
    ELSE "omega"

InitParse ==
    /\ \E present \in SUBSET DatasetVariables :
          tool = [pc |-> "call", present |-> present, error |-> None,
                  omega |-> None]
    /\ nc = IdleNc /\ pool = IdlePool /\ sp = IdleSp /\ eng = IdleEng

ParseDataset ==
    /\ tool.pc = "call"
    /\ IF ParseError(tool.present) # None
       THEN tool' = [tool EXCEPT !.pc = "raised",
                                 !.error = ParseError(tool.present)]
       ELSE tool' = [tool EXCEPT !.pc = "parsed",
                                 !.omega = OmegaSource(tool.present)]
    /\ UNCHANGED <<nc, pool, sp, eng>>

NextParse == ParseDataset

SpecParse == InitParse /\ [][NextParse]_vars

\* C26: a dataset with the winds, the temperature and the pressure, without
\* omega but with w_wind, is parsed and its omega is the estimate from
\* w_wind; ValueError for the vertical velocity is raised only if neither
\* omega nor w_wind is found.
C26_OmegaFallback ==
    ( /\ tool.pc \in {"parsed", "raised"}
      /\ {"u_wind", "v_wind", "temperature", "pressure"} \subseteq tool.present )
    => /\ ("omega" \notin tool.present /\ "w_wind" \in tool.present)
            => (tool.pc = "parsed" /\ tool.omega = "w_wind")
       /\ tool.pc = "raised"
            => ("omega" \notin tool.present /\ "w_wind" \notin tool.present)

(***************************************************************************)
(* check_and_convert_units(ds) on a dataset with a pressure and a          *)
(* temperature.  A variable is its units attribute (<<>> when it has       *)
(* none) and one value.                                                    *)
(***************************************************************************)
CheckedVariables == <<"pressure", "temperature">>

ExpectedUnits(varname) == IF varname = "pressure" THEN "Pa" ELSE "K"

\* expected_range[varname][1]; the lower ends are below every value used.
PressureRangeMax == 200000

TemperatureRangeMax == 350

ExpectedRangeMax(varname) ==
    IF varname = "pressure" THEN PressureRangeMax ELSE TemperatureRangeMax

\* The conversion factor of pint from a unit to the expected unit of a
\* variable, 0 when the dimensions differ.
HectoPascal == 100

UnitFactor(units, expected) ==
    IF units = "hPa" /\ expected = "Pa" THEN HectoPascal ELSE 0

\* The body of the loop for one variable.
ConvertVariable(varname, var) ==
    LET expected == ExpectedUnits(varname)
        absent == var.units = <<>>
        var_units == IF absent THEN expected ELSE var.units[1]
    IN  IF absent /\ var.value > ExpectedRangeMax(varname)
        THEN [units |-> var.units, value |-> var.value, error |-> "ValueError"]
        ELSE IF var_units # expected /\ UnitFactor(var_units, expected) = 0
        THEN [units |-> var.units, value |-> var.value, error |-> "ValueError"]
        ELSE [units |-> <<var_units>>,
              value |-> IF var_units # expected
                        THEN var.value * UnitFactor(var_units, expected)
                        ELSE var.value,
              error |-> None]

\* The loop over the variables: a variable is converted in place, an error
\* ends the loop.
RECURSIVE ConvertFrom(_, _)
ConvertFrom(i, ds) ==
    IF i > Len(CheckedVariables) THEN [ds |-> ds, error |-> None]
    ELSE LET varname == CheckedVariables[i]
             out == ConvertVariable(varname, ds[varname])
         IN  IF out.error # None THEN [ds |-> ds, error |-> out.error]
             ELSE ConvertFrom(i + 1,
                     [ds EXCEPT ![varname] =
                         [units |-> out.units, value |-> out.value]])

InitUnits ==
    /\ \E pu \in {<<>>, <<"Pa">>, <<"hPa">>, <<"m">>},
          pv \in {1000, 100000, 201000},
          tu \in {<<>>, <<"K">>, <<"m">>}, tv \in {300, 1000} :
          tool = [pc |-> "call", applied |-> 0,
                  ds |-> [pressure |-> [units |-> pu, value |-> pv],
                          temperature |-> [units |-> tu, value |-> tv]],
                  first |-> <<>>]
    /\ nc = IdleNc /\ pool = IdlePool /\ sp = IdleSp /\ eng = IdleEng

\* check_and_convert_units(ds), applied at most twice; the dataset after
\* the first application is remembered.
CheckAndConvertUnits ==
    /\ tool.pc = "call"
    /\ tool.applied < 2
    /\ LET out == ConvertFrom(1, tool.ds)
       IN  tool' = [pc |-> IF out.error # None THEN "raised" ELSE "call",
                    applied |-> tool.applied + 1,
                    ds |-> out.ds,
                    first |-> IF tool.applied = 0 THEN <<out.ds>> ELSE tool.first]
    /\ UNCHANGED <<nc, pool, sp, eng>>

NextUnits == CheckAndConvertUnits

SpecUnits == InitUnits /\ [][NextUnits]_vars

InputOrder == {"surface_first", "top_first"}

\* Columns with at least two levels strictly inside them.
ColumnLevels == (MaxLevels + 1)..(MaxLevels + 2)

ScalarValues == {0, 1}

\* np.flip along the vertical axis.
Flip(x) == [k \in 1..Len(x) |-> x[Len(x) + 1 - k]]

\* np.sign
Sign(x) == IF x > 0 THEN 1 ELSE IF x < 0 THEN -1 ELSE 0

\* The arrays handed to the constructor for an atmosphere given
\* surface-first as p and scalar.
Supplied(order, x) == IF order = "surface_first" THEN x ELSE Flip(x)

\* self.direction = np.sign(p[0] - p[-1])
Direction(p) == Sign(p[1] - p[Len(p)])

\* self.p = np.asarray(sorted(p, reverse=True))
SortedReverse(p) == Flip(SortAscending(p))

\* _transform_data(scalar, filtered=False) for one column: the surface is
\* put at index 0.
TransformData(direction, scalar) ==
    IF direction < 0 THEN Flip(scalar) ELSE scalar

\* The levels vertical_integration keeps: inside the sorted pressure
\* range, the two boundary levels left out.
LevelMask(pressure, pressure_range) ==
    LET range == SortAscending(pressure_range)
    IN  SelectSeq([k \in 1..Len(pressure) |-> k],
            LAMBDA k : /\ pressure[k] >= range[1]
                       /\ pressure[k] <= range[2]
                       /\ pressure[k] # pressure[1]
                       /\ pressure[k] # pressure[Len(pressure)])

\* Twelve times the composite Simpson sum of y[a..b] over an even number
\* of intervals of length dx.
RECURSIVE BasicSimpson(_, _, _, _)
BasicSimpson(y, a, b, dx) ==
    IF b - a < 2 THEN 0
    ELSE 4 * dx * (y[a] + 4 * y[a + 1] + y[a + 2]) + BasicSimpson(y, a + 2, b, dx)

\* Twelve times the trapezoid of one interval.
Trapezoid(ya, yb, dx) == 6 * dx * (ya + yb)

\* Twelve times simpson(y, x=x, even='avg') for equally spaced x with at
\* least two points.
Simpson(y, x) ==
    LET n == Len(y)
        dx == x[2] - x[1]
    IN  IF n % 2 = 1 THEN BasicSimpson(y, 1, n, dx)
        ELSE ( BasicSimpson(y, 1, n - 1, dx) + Trapezoid(y[n - 1], y[n], dx)
             + Trapezoid(y[1], y[2], dx) + BasicSimpson(y, 2, n, dx) ) \div 2

\* vertical_integration(scalar) with the default pressure range, in units
\* of spacing / (12 g).
IntegrateColumn(direction, pressure, scalar) ==
    LET level_mask == LevelMask(pressure, <<pressure[1], pressure[Len(pressure)]>>)
        taken == [i \in 1..Len(level_mask) |-> scalar[level_mask[i]]]
        x == [i \in 1..Len(level_mask) |-> pressure[level_mask[i]]]
    IN  direction * Simpson(taken, x)

InitVertical ==
    /\ \E n \in ColumnLevels : \E scalar \in [1..n -> ScalarValues] :
          tool = [p |-> [k \in 1..n |-> n + 1 - k], scalar |-> scalar,
                  engine |-> [o \in InputOrder |-> [pc |-> "new"]]]
    /\ nc = IdleNc /\ pool = IdlePool /\ sp = IdleSp /\ eng = IdleEng

\* EnergyBudget(..., p=p) for the atmosphere supplied in one order.
ConstructColumn(order) ==
    /\ tool.engine[order].pc = "new"
    /\ LET p == Supplied(order, tool.p)
       IN  tool' = [tool EXCEPT !.engine[order] =
               [pc |-> "built", direction |-> Direction(p), p |-> SortedReverse(p)]]
    /\ UNCHANGED <<nc, pool, sp, eng>>

\* A field of the engine: _transform_data of the supplied scalar.
StoreColumn(order) ==
    /\ tool.engine[order].pc = "built"
    /\ LET e == tool.engine[order]
       IN  tool' = [tool EXCEPT !.engine[order] =
               [pc |-> "stored", direction |-> e.direction, p |-> e.p,
                field |-> TransformData(e.direction, Supplied(order, tool.scalar))]]
    /\ UNCHANGED <<nc, pool, sp, eng>>

\* vertical_integration(field)
IntegrateStored(order) ==
    /\ tool.engine[order].pc = "stored"
    /\ LET e == tool.engine[order]
       IN  tool' = [tool EXCEPT !.engine[order] =
               [pc |-> "integrated", direction |-> e.direction, p |-> e.p,
                field |-> e.field,
                integral |-> IntegrateColumn(e.direction, e.p, e.field)]]
    /\ UNCHANGED <<nc, pool, sp, eng>>

NextVertical ==
    \E order \in InputOrder :
        ConstructColumn(order) \/ StoreColumn(order) \/ IntegrateStored(order)

SpecVertical == InitVertical /\ [][NextVertical]_vars

\* C28: for two engines built from the same atmosphere, one supplied
\* surface-first and one top-first, the stored pressure array and field are
\* identical with the surface at index 0, and vertical_integration of the
\* field returns the same value in both.
C28_DirectionInvariant ==
    (\A o \in InputOrder : tool.engine[o].pc = "integrated") =>
        LET a == tool.engine["surface_first"]
            b == tool.engine["top_first"]
        IN  /\ a.p = b.p /\ a.p = tool.p
            /\ a.field = b.field /\ a.field = tool.scalar
            /\ a.integral = b.integral

(***************************************************************************)
(* The worker pools of a transform call (SpecPool).  pool.open counts the  *)
(* pools created by the call that were not closed and joined.              *)
(***************************************************************************)
\* C29: when a transform call ends, by returning or by raising, every
\* worker pool it created has been closed and joined.
C29_PoolsClosed ==
    pool.pc \in {"done", "raised"} => pool.open = 0

(***************************************************************************)
(* The worker count of the "aeb" constructor: the jobs argument is clipped *)
(* to the packed sample size and handed to number_chunks.                  *)
(***************************************************************************)
\* The jobs argument: None (<<>>) or an integer, negative and 0 included.
JobsArgs == {<<>>} \cup {<<j>> : j \in (0 - MaxSampleSize)..(MaxSampleSize + 1)}

\* mp.cpu_count()
CpuCounts == {1, 2, MaxSampleSize + 1}

\* min of Python for two integers.
Min2(a, b) == IF a <= b THEN a ELSE b

\* self.jobs before number_chunks is applied.
ClippedJobs(jobs, cpus, packed_size) ==
    IF jobs = <<>> THEN Min2(cpus, packed_size) ELSE Min2(jobs[1], packed_size)

InitJobs ==
    /\ \E s \in 1..MaxSampleSize : \E j \in JobsArgs :
          nc = [pc |-> "init", sample_size |-> s, arg |-> j, workers |-> None,
                jobs |-> None, result |-> None]
    /\ pool = IdlePool
    /\ sp = IdleSp
    /\ eng = IdleEng
    /\ tool = IdleTool

\* self.jobs = min(..., packed_size); number_chunks(packed_size, self.jobs)
\* is called.
ClipJobs ==
    /\ nc.pc = "init"
    /\ \E cpus \in CpuCounts :
          nc' = [nc EXCEPT !.pc = "call",
                           !.workers = ClippedJobs(nc.arg, cpus, nc.sample_size)]
    /\ UNCHANGED <<pool, sp, eng, tool>>

\* the loop test divides by zero: ZeroDivisionError
NcRaise ==
    /\ nc.pc = "loop"
    /\ nc.jobs = 0
    /\ nc' = [nc EXCEPT !.pc = "raised"]
    /\ UNCHANGED <<pool, sp, eng, tool>>

NextJobs == ClipJobs \/ NcEnter \/ NcStep \/ NcReturn \/ NcRaise

SpecJobs == InitJobs /\ [][NextJobs]_vars

\* number_chunks run to its end under the scheduling of one thread.
FairJobs == SpecJobs /\ WF_vars(NextJobs)

\* C30: for every sample size S >= 1 and every worker count W the
\* constructor can pass, 0 and negative values included, the search of
\* number_chunks does not fail, does not descend below -S, where no value
\* of jobs ends it, and what it returns lies between 1 and W.
C30_ChunksInRange ==
    /\ nc.pc # "raised"
    /\ nc.pc = "loop" => nc.jobs >= 0 - nc.sample_size
    /\ nc.pc = "done" => (1 <= nc.result /\ nc.result <= nc.workers)

=============================================================================
